---- MODULE Spec2Model ----
(***************************************************************************)
(* A model of django-pyref: DOI canonicalization (refs/utils.py), the      *)
(* DOI-resolution / citation-parsing pipeline and the derived operations   *)
(* of a Ref (refs/models.py), the XSAMS exporter (xsams_utils.py,          *)
(* xsams_generators.py) and the API views (api_views.py).                  *)
(*                                                                         *)
(* Text is modelled as a sequence of one-character strings, so that the    *)
(* string operations of the code (regular-expression match, startswith,    *)
(* replace, split, count, strip) are computed character by character.      *)
(***************************************************************************)
EXTENDS Integers, Sequences, FiniteSets, TLC

VARIABLES
    doi_arg,      \* the DOI string handed to canonicalize_doi
    doi_res,      \* the results of the successive applications of canonicalize_doi
    store,        \* the Ref the caller holds: {} for none, {r} for the record r
    pc,           \* the position of the running call
    existing,     \* the call was given an existing record (its argument ref)
    query_ads,    \* the argument query_ads of the call
    cpd,          \* the citation document of the call: {} before it is fetched
    ref,          \* the local ref of parse_citeproc_json: {} for None
    before,       \* ref as it was when the call started
    constructed,  \* the call has constructed a new Ref
    outcome,      \* "" while running, "returned", or the exception raised
    fetch_resp,   \* the DOI resolver's response in this call
    search_resp,  \* the response to the bibcode search of this call
    n_search,     \* the number of bibcode search requests sent in this call
    bibcode,      \* the local bibcode of parse_citeproc_json: {} for None
    n_export,     \* the number of get_title_from_bibcode invocations started
    attempts,     \* the requests sent by the running/last invocation of it
    retries,      \* the retries that remain to that invocation
    retry_cause,  \* the response that caused its latest retry
    export_resp,  \* the response the session returned to that invocation
    title_html,   \* the local title_html of parse_citeproc_json: {} if unset
    title_latex,  \* the local title_latex of parse_citeproc_json: {} if unset
    author_arg,   \* the author list handed to get_citeproc_authors
    author_res,   \* <<>> before get_citeproc_authors ran, then <<its outcome>>
    page_arg,     \* the page string of a citation document
    page_res,     \* <<>> before the page string was split, then <<the outcome>>
    self,         \* the Ref instance whose methods are called
    sources,      \* the list of Refs handed to xsams_sources
    ret,          \* what each method / generator returned: <<>> before its call
    objects,      \* Ref.objects: the saved records
    request,      \* the API request: its view and the view's keyword arguments
    response      \* <<>> before the API view ran, then <<its outcome>>

doi_vars == <<doi_arg, doi_res>>

fmt_vars == <<author_arg, author_res, page_arg, page_res>>

ref_vars == <<self, sources, ret>>

api_vars == <<objects, request, response>>

call_vars == <<pc, existing, query_ads, cpd, ref, before, constructed, outcome,
               fetch_resp, search_resp, n_search, bibcode, n_export, attempts,
               retries, retry_cause, export_resp, title_html, title_latex>>

vars == <<doi_vars, fmt_vars, ref_vars, api_vars, store, call_vars>>

-----------------------------------------------------------------------------
(* Generic text helpers.                                                   *)

\* s[i..] of Python: the text from (1-based) position i on.
DropTo(s, i) == SubSeq(s, i, Len(s))

\* str.startswith with an offset: p occurs in s starting at position i.
OccursAt(s, p, i) ==
    /\ i >= 1
    /\ i + Len(p) - 1 <= Len(s)
    /\ SubSeq(s, i, i + Len(p) - 1) = p

StartsWith(s, p) == OccursAt(s, p, 1)

RECURSIVE Concat(_)
Concat(ss) == IF ss = <<>> THEN <<>> ELSE Head(ss) \o Concat(Tail(ss))

-----------------------------------------------------------------------------
(* refs/utils.py: canonicalize_doi                                         *)

\* The literals of the pattern '^https?:\/\/(?:dx\.)?doi\.org/'.
LitHttp   == <<"h", "t", "t", "p">>
LitS      == <<"s">>
LitSep    == <<":", "/", "/">>
LitDx     == <<"d", "x", ".">>
LitDoiOrg == <<"d", "o", "i", ".", "o", "r", "g", "/">>

\* The position just after a match of 'https?:\/\/(?:dx\.)?doi\.org/' that
\* starts at position i of s, or 0 when the pattern does not match there.
\* The optional items are greedy; backtracking out of them cannot succeed,
\* because the item that follows starts with a different character.
PattMatchEnd(s, i) ==
    IF ~OccursAt(s, LitHttp, i) THEN 0
    ELSE LET a == i + Len(LitHttp)
             b == IF OccursAt(s, LitS, a) THEN a + Len(LitS) ELSE a
         IN  IF ~OccursAt(s, LitSep, b) THEN 0
             ELSE LET c == b + Len(LitSep)
                      d == IF OccursAt(s, LitDx, c) THEN c + Len(LitDx) ELSE c
                  IN  IF OccursAt(s, LitDoiOrg, d)
                      THEN d + Len(LitDoiOrg)
                      ELSE 0

\* A plausible slip: the pattern without its '^' anchor, replacing the first
\* occurrence found anywhere in the string.
RECURSIVE FirstMatchFrom(_, _)
FirstMatchFrom(s, i) ==
    IF i > Len(s) THEN 0
    ELSE IF PattMatchEnd(s, i) # 0 THEN i
    ELSE FirstMatchFrom(s, i + 1)

canonicalize_doi_unanchored(doi) ==
    LET i == FirstMatchFrom(doi, 1)
    IN  IF i = 0 THEN doi
        ELSE SubSeq(doi, 1, i - 1) \o DropTo(doi, PattMatchEnd(doi, i))

\* Another plausible slip: the optional 'dx.' group left out of the pattern.
canonicalize_doi_nodx(doi) ==
    LET e == PattMatchEnd(doi, 1)
    IN  IF e # 0 /\ ~OccursAt(doi, LitDx, e - Len(LitDoiOrg) - Len(LitDx))
        THEN DropTo(doi, e)
        ELSE doi

\* re.sub(patt, '', doi): every non-overlapping match is replaced, and the
\* '^' anchor (no MULTILINE flag) lets the pattern match at position 1 only,
\* so at most one match is removed.
canonicalize_doi(doi) ==
    LET e == PattMatchEnd(doi, 1)
    IN  IF e # 0 THEN DropTo(doi, e) ELSE doi

-----------------------------------------------------------------------------
(* Python string methods used by the parser, character by character.       *)

\* sep.join(parts)
RECURSIVE Join(_, _)
Join(parts, sep) ==
    IF parts = <<>> THEN <<>>
    ELSE IF Len(parts) = 1 THEN parts[1]
    ELSE parts[1] \o sep \o Join(Tail(parts), sep)

\* The position of the first occurrence of sep in s at or after i, or 0.
RECURSIVE FindFrom(_, _, _)
FindFrom(s, sep, i) ==
    IF i + Len(sep) - 1 > Len(s) THEN 0
    ELSE IF OccursAt(s, sep, i) THEN i
    ELSE FindFrom(s, sep, i + 1)

\* sep in s
Contains(s, sep) == FindFrom(s, sep, 1) # 0

\* s.split(sep) for a non-empty sep: non-overlapping occurrences, found from
\* the left; always at least one part.
RECURSIVE Split(_, _)
Split(s, sep) ==
    LET i == FindFrom(s, sep, 1)
    IN  IF i = 0 THEN <<s>>
        ELSE <<SubSeq(s, 1, i - 1)>> \o Split(DropTo(s, i + Len(sep)), sep)

\* s.count(sep): the number of non-overlapping occurrences.
Count(s, sep) == Len(Split(s, sep)) - 1

\* s.replace(old, new)
Replace(s, old, new) == Join(Split(s, old), new)

Whitespace == {" ", "\n", "\t"}

\* s.split(): split on runs of whitespace, no empty parts.
RECURSIVE SplitWs(_)
SplitWs(s) ==
    IF s = <<>> THEN <<>>
    ELSE IF Head(s) \in Whitespace THEN SplitWs(Tail(s))
    ELSE LET rest == SplitWs(Tail(s))
         IN  IF Len(s) > 1 /\ s[2] \notin Whitespace
             THEN <<(<<Head(s)>> \o Head(rest))>> \o Tail(rest)
             ELSE <<(<<Head(s)>>)>> \o rest

LowerLetters == <<"a", "b", "c", "d", "e", "f", "g", "h", "i", "j", "k", "l", "m",
                  "n", "o", "p", "q", "r", "s", "t", "u", "v", "w", "x", "y", "z">>
UpperLetters == <<"A", "B", "C", "D", "E", "F", "G", "H", "I", "J", "K", "L", "M",
                  "N", "O", "P", "Q", "R", "S", "T", "U", "V", "W", "X", "Y", "Z">>

IndexIn(letters, c) ==
    IF \E k \in 1..Len(letters) : letters[k] = c
    THEN CHOOSE k \in 1..Len(letters) : letters[k] = c
    ELSE 0

IsCased(c) == IndexIn(LowerLetters, c) # 0 \/ IndexIn(UpperLetters, c) # 0
ToUpper(c) == IF IndexIn(LowerLetters, c) # 0
              THEN UpperLetters[IndexIn(LowerLetters, c)] ELSE c
ToLower(c) == IF IndexIn(UpperLetters, c) # 0
              THEN LowerLetters[IndexIn(UpperLetters, c)] ELSE c

\* s.title(): a cased character is upper-cased when it follows an uncased
\* character (or starts the string) and lower-cased when it follows a cased
\* one.
RECURSIVE TitleFrom(_, _)
TitleFrom(s, prevCased) ==
    IF s = <<>> THEN <<>>
    ELSE <<(IF prevCased THEN ToLower(Head(s)) ELSE ToUpper(Head(s)))>>
         \o TitleFrom(Tail(s), IsCased(Head(s)))

Title(s) == TitleFrom(s, FALSE)

-----------------------------------------------------------------------------
(* refs/utils.py: ensure_https                                             *)

LitHttps == <<"h", "t", "t", "p", "s">>
LitHttpsSep == <<"h", "t", "t", "p", "s", ":", "/", "/">>

ensure_https(url) ==
    IF StartsWith(url, LitHttps) THEN url
    ELSE IF StartsWith(url, LitHttp) THEN LitHttps \o DropTo(url, 5)
    ELSE LitHttpsSep \o url

-----------------------------------------------------------------------------
(* refs/models.py: the citation parser.                                    *)
(*                                                                         *)
(* A JSON object is a function from the keys it has to their values.  A   *)
(* value that may be None (year, citeproc_json) is a set: {} for None and  *)
(* {v} for v.  The result of a computation that may raise is a record      *)
(* whose field "err" names the exception ("" when none is raised).         *)

NoErr == ""

\* k in d
Has(d, k) == k \in DOMAIN d

\* d.get(k, '')
GetOr(d, k) == IF Has(d, k) THEN d[k] ELSE <<>>

\* AuthorName keeping only the initial of the given name.
AuthorName_initial_only(author) ==
    IF ~Has(author, "family")
    THEN IF ~Has(author, "name")
         THEN [err |-> "KeyError", val |-> <<>>]
         ELSE [err |-> NoErr, val |-> author.name]
    ELSE LET family == Title(author.family)
         IN  IF ~Has(author, "given")
             THEN [err |-> NoErr, val |-> family]
             ELSE LET initials == SplitWs(author.given)
                  IN  IF initials = <<>>
                      THEN [err |-> "IndexError", val |-> <<>>]
                      ELSE [err |-> NoErr,
                            val |-> <<initials[1][1], ".">> \o <<" ">> \o family]

\* One entry of the author list: lines 269-286 of get_citeproc_authors.
AuthorName(author) ==
    IF ~Has(author, "family")
    THEN IF ~Has(author, "name")
         THEN [err |-> "KeyError", val |-> <<>>]
         ELSE [err |-> NoErr, val |-> author.name]
    ELSE LET family == Title(author.family)
         IN  IF ~Has(author, "given")
             THEN [err |-> NoErr, val |-> family]
             ELSE LET initials == SplitWs(author.given)
                  IN  IF initials = <<>>
                      THEN [err |-> "IndexError", val |-> <<>>]
                      ELSE LET first == <<initials[1][1], ".">>
                               all == Join(<<first>> \o Tail(initials), <<" ">>)
                           IN  [err |-> NoErr, val |-> all \o <<" ">> \o family]

\* get_citeproc_authors for a list of entries (the default '' of
\* cpd.get('author', '') iterates as the empty list).  The loop raises at the
\* first entry that cannot be formatted.
get_citeproc_authors(cpd_author) ==
    LET rs == [k \in 1..Len(cpd_author) |-> AuthorName(cpd_author[k])]
        bad == { k \in 1..Len(cpd_author) : rs[k].err # NoErr }
    IN  IF bad # {}
        THEN [err |-> rs[CHOOSE k \in bad : \A j \in bad : k <= j].err, val |-> <<>>]
        ELSE [err |-> NoErr,
              val |-> Join([k \in 1..Len(cpd_author) |-> rs[k].val], <<",", " ">>)]

\* The page string split at its first hyphen.
ParsePage_first_hyphen(page) ==
    IF page = <<>> THEN [err |-> NoErr, page_start |-> <<>>, page_end |-> <<>>]
    ELSE IF Contains(page, <<"-", "-">>)
    THEN LET f == Split(page, <<"-", "-">>)
         IN  IF Len(f) # 2
             THEN [err |-> "ValueError", page_start |-> page, page_end |-> <<>>]
             ELSE [err |-> NoErr, page_start |-> f[1], page_end |-> f[2]]
    ELSE LET nhyphens == Count(page, <<"-">>)
             f == Split(page, <<"-">>)
         IN  IF nhyphens % 2 = 1
             THEN [err |-> NoErr,
                   page_start |-> f[1],
                   page_end |-> Join(Tail(f), <<"-">>)]
             ELSE [err |-> NoErr, page_start |-> page, page_end |-> <<>>]

\* Lines 362-372: the page string split into page_start and page_end.
\* Unpacking page_start.split('--') into two names raises ValueError unless
\* the split has exactly two parts.
ParsePage(page) ==
    IF page = <<>> THEN [err |-> NoErr, page_start |-> <<>>, page_end |-> <<>>]
    ELSE IF Contains(page, <<"-", "-">>)
    THEN LET f == Split(page, <<"-", "-">>)
         IN  IF Len(f) # 2
             THEN [err |-> "ValueError", page_start |-> page, page_end |-> <<>>]
             ELSE [err |-> NoErr, page_start |-> f[1], page_end |-> f[2]]
    ELSE LET nhyphens == Count(page, <<"-">>)
             f == Split(page, <<"-">>)
             mid == (nhyphens \div 2) + 1
         IN  IF nhyphens % 2 = 1
             THEN [err |-> NoErr,
                   page_start |-> Join(SubSeq(f, 1, mid), <<"-">>),
                   page_end |-> Join(SubSeq(f, mid + 1, Len(f)), <<"-">>)]
             ELSE [err |-> NoErr, page_start |-> page, page_end |-> <<>>]

\* Lines 377-380: cpd['issued']['date-parts'][0][0]; KeyError and IndexError
\* give None.
ParseYear(doc) ==
    IF ~Has(doc, "issued") THEN {}
    ELSE IF ~Has(doc.issued, "date-parts") THEN {}
    ELSE IF doc.issued["date-parts"] = <<>> THEN {}
    ELSE IF doc.issued["date-parts"][1] = <<>> THEN {}
    ELSE {doc.issued["date-parts"][1][1]}

LitArticleJournal ==
    <<"a", "r", "t", "i", "c", "l", "e", "-", "j", "o", "u", "r", "n", "a", "l">>

\* A slip: the type check left out.
ParseFields_type_unchecked(doc) ==
    LET a == get_citeproc_authors(IF Has(doc, "author") THEN doc.author ELSE <<>>)
        t == GetOr(doc, "title")
        pg == ParsePage(GetOr(doc, "page"))
    IN  [err |-> IF a.err # NoErr THEN a.err ELSE pg.err,
         authors |-> a.val,
         title |-> IF t # <<>> THEN Replace(t, <<"\n">>, <<" ">>) ELSE t,
         journal |-> GetOr(doc, "container-title"),
         volume |-> GetOr(doc, "volume"),
         page_start |-> pg.page_start,
         page_end |-> pg.page_end,
         article_number |-> GetOr(doc, "article-number"),
         doi |-> GetOr(doc, "DOI"),
         url |-> ensure_https(GetOr(doc, "URL")),
         year |-> ParseYear(doc)]

\* Lines 351-380 of parse_citeproc_json: the type check and the field values,
\* with the first exception the statements raise, in their order.
ParseFields(doc) ==
    LET a == get_citeproc_authors(IF Has(doc, "author") THEN doc.author ELSE <<>>)
        t == GetOr(doc, "title")
        pg == ParsePage(GetOr(doc, "page"))
        e == IF ~Has(doc, "type") THEN "KeyError"
             ELSE IF doc.type # LitArticleJournal THEN "NotImplementedError"
             ELSE IF a.err # NoErr THEN a.err
             ELSE pg.err
    IN  [err |-> e,
         authors |-> a.val,
         title |-> IF t # <<>> THEN Replace(t, <<"\n">>, <<" ">>) ELSE t,
         journal |-> GetOr(doc, "container-title"),
         volume |-> GetOr(doc, "volume"),
         page_start |-> pg.page_start,
         page_end |-> pg.page_end,
         article_number |-> GetOr(doc, "article-number"),
         doi |-> GetOr(doc, "DOI"),
         url |-> ensure_https(GetOr(doc, "URL")),
         year |-> ParseYear(doc)]

\* The fields of a Ref that the pipeline reads or writes (note is never
\* written by it).
BaseFields == {"authors", "title", "journal", "volume", "year", "page_start",
               "page_end", "doi", "url", "article_number"}

\* A slip: the assignment of ref.journal left out of the update.
AssignFields_skip_journal(r, f, text) ==
    [r EXCEPT !.authors = f.authors, !.title = f.title,
              !.volume = f.volume, !.year = f.year,
              !.page_start = f.page_start, !.page_end = f.page_end,
              !.doi = f.doi, !.url = f.url,
              !.article_number = f.article_number,
              !.citeproc_json = {text}]

\* A slip: the update of an existing record also clears what an earlier
\* enrichment stored.
AssignFields_reset_enrichment(r, f, text) ==
    [r EXCEPT !.authors = f.authors, !.title = f.title,
              !.journal = f.journal, !.volume = f.volume, !.year = f.year,
              !.page_start = f.page_start, !.page_end = f.page_end,
              !.doi = f.doi, !.url = f.url,
              !.article_number = f.article_number,
              !.citeproc_json = {text},
              !.bibcode = <<>>, !.title_html = <<>>, !.title_latex = <<>>]

\* Lines 383-393: the fields of the existing record overwritten in place.
AssignFields(r, f, text) ==
    [r EXCEPT !.authors = f.authors, !.title = f.title,
              !.journal = f.journal, !.volume = f.volume, !.year = f.year,
              !.page_start = f.page_start, !.page_end = f.page_end,
              !.doi = f.doi, !.url = f.url,
              !.article_number = f.article_number,
              !.citeproc_json = {text}]

\* A Ref with every field at the default of its model field.
BlankRef ==
    [authors |-> <<>>, title |-> <<>>, title_html |-> <<>>, title_latex |-> <<>>,
     journal |-> <<>>, volume |-> <<>>, page_start |-> <<>>, page_end |-> <<>>,
     article_number |-> <<>>, year |-> {}, note |-> <<>>, doi |-> <<>>,
     bibcode |-> <<>>, url |-> <<>>, citeproc_json |-> {}]

\* Lines 395-398: Ref(authors=..., ..., citeproc_json=citeproc_json).
NewRef(f, text) == AssignFields(BlankRef, f, text)

-----------------------------------------------------------------------------
(* refs/models.py: the calls to the DOI resolver and to the literature     *)
(* index (ADS).  A response is a record: conn_ok is FALSE when no HTTP     *)
(* response was obtained (connection-level failure), status is the HTTP    *)
(* status, json_ok tells whether the body is JSON text, body is the parsed *)
(* JSON body.                                                              *)

EmptyObj == <<>>

\* get_citeproc_json_from_doi, lines 417-424: only HTTPError is caught.  A
\* connection-level failure is a urllib.error.URLError (the base class of
\* HTTPError), which the except clause does not match.
FetchError(resp) ==
    IF ~resp.conn_ok THEN "URLError"
    ELSE IF resp.status = 404 THEN "UnresolvedDOIError"
    ELSE IF resp.status >= 400 THEN "RefError"
    ELSE NoErr

\* A slip: the test for the error key left out.
get_bibcode_ignore_error_key(resp) ==
    IF ~resp.conn_ok THEN [err |-> "ConnectionError", val |-> {}]
    ELSE IF ~resp.json_ok THEN [err |-> "JSONDecodeError", val |-> {}]
    ELSE IF ~Has(resp.body, "responseHeader") THEN [err |-> "KeyError", val |-> {}]
    ELSE IF resp.body.responseHeader.status # 0 THEN [err |-> "ADSError", val |-> {}]
    ELSE IF ~Has(resp.body, "response") THEN [err |-> "TypeError", val |-> {}]
    ELSE IF ~Has(resp.body.response, "docs") THEN [err |-> "KeyError", val |-> {}]
    ELSE IF resp.body.response.docs = <<>> THEN [err |-> NoErr, val |-> {}]
    ELSE IF ~Has(resp.body.response.docs[1], "bibcode")
    THEN [err |-> "KeyError", val |-> {}]
    ELSE [err |-> NoErr, val |-> {resp.body.response.docs[1].bibcode}]

\* get_bibcode, lines 291-311, on the response of its one GET (requests.get
\* uses the default adapter, which does not retry).  The HTTP status is not
\* looked at; the body is parsed as JSON.
get_bibcode(resp) ==
    IF ~resp.conn_ok THEN [err |-> "ConnectionError", val |-> {}]
    ELSE IF ~resp.json_ok THEN [err |-> "JSONDecodeError", val |-> {}]
    ELSE IF Has(resp.body, "error") THEN [err |-> "ADSError", val |-> {}]
    ELSE IF ~Has(resp.body, "responseHeader") THEN [err |-> "KeyError", val |-> {}]
    ELSE IF resp.body.responseHeader.status # 0 THEN [err |-> "ADSError", val |-> {}]
    ELSE IF ~Has(resp.body, "response") THEN [err |-> "TypeError", val |-> {}]
    ELSE IF ~Has(resp.body.response, "docs") THEN [err |-> "KeyError", val |-> {}]
    ELSE IF resp.body.response.docs = <<>> THEN [err |-> NoErr, val |-> {}]
    ELSE IF ~Has(resp.body.response.docs[1], "bibcode")
    THEN [err |-> "KeyError", val |-> {}]
    ELSE [err |-> NoErr, val |-> {resp.body.response.docs[1].bibcode}]

\* Retry(total=5, ...): the number of retries allowed after the first request.
RetryTotal == 5

\* status_forcelist=[502, 503, 504]
StatusForcelist == {502, 503, 504}

\* Retry.RETRY_AFTER_STATUS_CODES of the HTTP client library: with a
\* Retry-After header these statuses are retried too (the default
\* respect_retry_after_header=True), while retries remain.
RetryAfterStatusCodes == {413, 429, 503}

\* A slip: 500 put on the status_forcelist.
RetryStep_with_500(resp, left) ==
    IF ~resp.conn_ok
    THEN IF left - 1 < 0 THEN "ConnectionError" ELSE "retry"
    ELSE IF \/ resp.status \in StatusForcelist \cup {500}
            \/ (left # 0 /\ resp.retry_after /\ resp.status \in RetryAfterStatusCodes)
    THEN IF left - 1 < 0 THEN "RetryError" ELSE "retry"
    ELSE "return"

\* What the session mounted at lines 325-329 does with the response of one
\* attempt of the POST, with `left` retries remaining: "retry" (one retry is
\* used up), "return" (the response is handed to the caller), or the
\* exception raised when the retries are exhausted.  POST is on the
\* method_whitelist, so every kind of failure of an attempt is retried.
RetryStep(resp, left) ==
    IF ~resp.conn_ok
    THEN IF left - 1 < 0 THEN "ConnectionError" ELSE "retry"
    ELSE IF \/ resp.status \in StatusForcelist
            \/ (left # 0 /\ resp.retry_after /\ resp.status \in RetryAfterStatusCodes)
    THEN IF left - 1 < 0 THEN "RetryError" ELSE "retry"
    ELSE "return"

\* get_title_from_bibcode, lines 335-345, on the response the session
\* returned: a response is falsy when its status is 400 or more.
TitleOf(resp) ==
    IF resp.status >= 400 THEN [err |-> "ADSError", val |-> <<>>]
    ELSE IF ~resp.json_ok THEN [err |-> "JSONDecodeError", val |-> <<>>]
    ELSE IF Has(resp.body, "error") THEN [err |-> "ADSError", val |-> <<>>]
    ELSE IF ~Has(resp.body, "export") THEN [err |-> NoErr, val |-> <<>>]
    ELSE [err |-> NoErr, val |-> resp.body.export]

\* A slip: the fetched title assigned without the emptiness test.
StoreTitle_always(r, field, t) == [r EXCEPT ![field] = t]

\* Lines 405-406 and 408-409: the fetched title is stored only if non-empty.
StoreTitle(r, field, t) ==
    IF t # <<>> THEN [r EXCEPT ![field] = t] ELSE r

\* A slip: ADSError caught inside the parser, the record returned as it is.
Uncaught_swallow_ads(err) == IF err = "ADSError" THEN NoErr ELSE err

\* parse_citeproc_json (lines 400-410) and get_ref_from_doi (lines 426-429)
\* have no try/except: an exception raised by a call they make reaches
\* their caller as raised.
Uncaught(err) == err

-----------------------------------------------------------------------------
(* The documents and the responses the environment can produce.            *)

FullDoc ==
    ("type" :> LitArticleJournal)
    @@ ("author" :> << [family |-> <<"r", "i", "c", "h", "a", "r", "d">>,
                        given |-> <<"P">>],
                       [name |-> <<"J", "E", "T", " ", "c">>] >>)
    @@ ("title" :> <<"T", "\n", "X">>)
    @@ ("container-title" :> <<"J">>)
    @@ ("volume" :> <<"5">>)
    @@ ("page" :> <<"1", "-", "9">>)
    @@ ("article-number" :> <<"A", "7">>)
    @@ ("DOI" :> <<"1", "0", ".", "1", "/", "x">>)
    @@ ("URL" :> <<"h", "t", "t", "p", ":", "/", "/", "x">>)
    @@ ("issued" :> ("date-parts" :> << <<2001>> >>))

OptionalKeys == {"author", "title", "container-title", "volume", "page",
                 "article-number", "DOI", "URL", "issued"}

Restrict(d, ks) == [k \in ks |-> d[k]]

\* d with the value of key k replaced by v.
With(d, k, v) == (k :> v) @@ d

\* The article-journal documents whose present fields are well formed: the
\* full document with at most one optional key missing, or at most one
\* optional key present.
PartialDocs ==
    { Restrict(FullDoc, {"type"} \cup ks) :
        ks \in { ks \in SUBSET OptionalKeys :
                   Cardinality(ks) <= 1 \/ Cardinality(ks) >= Cardinality(OptionalKeys) - 1 } }

VariantDocs ==
    { With(FullDoc, "type", <<"b", "o", "o", "k">>),
      With(Restrict(FullDoc, {"type", "title"}), "type", <<"b", "o", "o", "k">>),
      Restrict(FullDoc, DOMAIN FullDoc \ {"type"}),
      With(FullDoc, "page", <<"L", "1", "-", "-", "L", "9">>),
      With(FullDoc, "page", <<"a", "-", "-", "b", "-", "-", "c">>),
      With(FullDoc, "page", <<"A", "-", "1", "-", "2">>),
      With(FullDoc, "page", <<"7">>),
      With(FullDoc, "issued", EmptyObj),
      With(FullDoc, "issued", ("date-parts" :> <<>>)),
      With(FullDoc, "issued", ("date-parts" :> << <<>> >>)),
      With(FullDoc, "issued", ("date-parts" :> << <<1999, 5>> >>)),
      With(FullDoc, "author", << [family |-> <<"s", "m", "i", "t", "h">>] >>),
      With(FullDoc, "author", << [family |-> <<"l", "i">>, given |-> <<>>] >>),
      With(FullDoc, "author", << [given |-> <<"Q">>] >>),
      With(FullDoc, "URL", <<"h", "t", "t", "p", "s", ":", "/", "/", "y">>),
      With(FullDoc, "URL", <<"x", ".", "o">>) }

Documents == PartialDocs \cup VariantDocs

\* The record the caller may hold at the start: an enriched Ref entered
\* earlier.
OldRef ==
    [authors |-> <<"S", ".", " ", "N">>, title |-> <<"O", "l", "d">>,
     title_html |-> <<"<", "b", ">", "O">>, title_latex |-> <<"$", "O", "$">>,
     journal |-> <<"A", "D">>, volume |-> <<"1", "1", "5">>,
     page_start |-> <<"2", "8", "7">>, page_end |-> <<"3", "0", "8">>,
     article_number |-> <<"N", "1">>, year |-> {2017}, note |-> <<"n">>,
     doi |-> <<"1", "0", ".", "9", "/", "o">>, bibcode |-> <<"b", "O">>,
     url |-> <<"h", "t", "t", "p", "s", ":", "/", "/", "o">>,
     citeproc_json |-> {}]

NoResp == [conn_ok |-> TRUE, status |-> 0, retry_after |-> FALSE,
           json_ok |-> TRUE, body |-> EmptyObj]

Resp(status, body) == [NoResp EXCEPT !.status = status, !.body = body]

ConnFailure == [NoResp EXCEPT !.conn_ok = FALSE]

FetchResponses == { ConnFailure } \cup { Resp(c, EmptyObj) : c \in {200, 403, 404, 500, 503} }

SearchBody(status, docs) ==
    [responseHeader |-> [status |-> status], response |-> [docs |-> docs]]

BibA == <<"b", "A">>
BibB == <<"b", "B">>

SearchResponses ==
    { ConnFailure,
      [Resp(502, EmptyObj) EXCEPT !.json_ok = FALSE],
      Resp(200, SearchBody(0, <<>>)),
      Resp(200, SearchBody(0, << [bibcode |-> BibA] >>)),
      Resp(200, SearchBody(0, << [bibcode |-> BibB], [bibcode |-> BibA] >>)),
      Resp(200, SearchBody(0, << [id |-> <<"7">>] >>)),
      Resp(200, SearchBody(1, << [bibcode |-> BibA] >>)),
      Resp(401, [error |-> <<"U">>]),
      Resp(200, ("error" :> <<"e">>) @@ SearchBody(0, << [bibcode |-> BibA] >>)),
      Resp(200, [responseHeader |-> [status |-> 0]]),
      Resp(200, [response |-> [docs |-> <<>>]]) }

ExportResponses ==
    { ConnFailure,
      Resp(200, [export |-> <<"<", "i", ">", "T">>]),
      Resp(200, [export |-> <<>>]),
      Resp(200, EmptyObj),
      Resp(200, [error |-> <<"e">>]),
      [Resp(200, EmptyObj) EXCEPT !.json_ok = FALSE],
      Resp(404, EmptyObj),
      Resp(429, EmptyObj),
      [Resp(429, EmptyObj) EXCEPT !.retry_after = TRUE],
      Resp(500, EmptyObj),
      Resp(502, EmptyObj),
      Resp(503, EmptyObj),
      Resp(504, EmptyObj) }

-----------------------------------------------------------------------------
(* The resolution pipeline as a state machine.                             *)

\* No method of a Ref has been called and no generator has run.
NoRet ==
    [authors_list |-> <<>>, shorten_authors |-> <<>>, serialize |-> <<>>,
     html_article |-> <<>>, xsams_source |-> <<>>, xsams_sources |-> <<>>]

\* Nothing was handed to the formatting functions of the parser.
IdleFmt ==
    /\ author_arg = <<>>
    /\ author_res = <<>>
    /\ page_arg = <<>>
    /\ page_res = <<>>

\* No Ref instance is being formatted or exported.
IdleRef ==
    /\ self = BlankRef
    /\ sources = <<>>
    /\ ret = NoRet

\* No API request is being served.
IdleApi ==
    /\ objects = {}
    /\ request = [view |-> "", kwargs |-> EmptyObj]
    /\ response = <<>>

\* No call is running: the locals of the pipeline at their initial values.
IdleCall ==
    /\ pc = "idle"
    /\ existing = FALSE
    /\ query_ads = FALSE
    /\ cpd = {}
    /\ ref = {}
    /\ before = {}
    /\ constructed = FALSE
    /\ outcome = ""
    /\ fetch_resp = NoResp
    /\ search_resp = NoResp
    /\ n_search = 0
    /\ bibcode = {}
    /\ n_export = 0
    /\ attempts = 0
    /\ retries = 0
    /\ retry_cause = NoResp
    /\ export_resp = NoResp
    /\ title_html = {}
    /\ title_latex = {}

Init ==
    /\ doi_arg = <<>>
    /\ doi_res = <<>>
    /\ IdleFmt
    /\ IdleRef
    /\ IdleApi
    /\ store \in {{}, {OldRef}}
    /\ IdleCall

\* The call raises err, or returns when err is NoErr.
Finished(err) ==
    /\ pc' = "done"
    /\ outcome' = IF Uncaught(err) = NoErr THEN "returned" ELSE Uncaught(err)

\* A caller (views.resolve, Ref.get_ref_from_doi) invokes
\* get_ref_from_doi(doi, ref, query_ads), with or without the record it
\* holds.  One behaviour is one such call: views.resolve serves one request
\* with it and does not save the record.
CallGetRefFromDoi ==
    /\ pc = "idle"
    /\ \E ex \in BOOLEAN, q \in BOOLEAN :
          /\ ex => store # {}
          /\ existing' = ex
          /\ query_ads' = q
          /\ ref' = IF ex THEN store ELSE {}
          /\ before' = IF ex THEN store ELSE {}
    /\ pc' = "fetch"
    /\ UNCHANGED <<doi_vars, fmt_vars, ref_vars, api_vars, store,
                   cpd, constructed, outcome, fetch_resp,
                   search_resp, n_search, bibcode, n_export, attempts, retries,
                   retry_cause, export_resp, title_html, title_latex>>

\* get_citeproc_json_from_doi: one GET to the resolver.
Fetch ==
    /\ pc = "fetch"
    /\ \E resp \in FetchResponses, d \in Documents :
          /\ fetch_resp' = resp
          /\ IF FetchError(resp) # NoErr
             THEN /\ Finished(FetchError(resp))
                  /\ cpd' = {}
             ELSE /\ pc' = "parse"
                  /\ cpd' = {d}
                  /\ UNCHANGED outcome
    /\ UNCHANGED <<doi_vars, fmt_vars, ref_vars, api_vars, store,
                   existing, query_ads, ref, before,
                   constructed, search_resp, n_search, bibcode, n_export,
                   attempts, retries, retry_cause, export_resp, title_html,
                   title_latex>>

\* parse_citeproc_json, lines 351-398 (and line 410 when query_ads is false):
\* every statement that can raise precedes the first assignment to the record.
Parse ==
    /\ pc = "parse"
    /\ \E d \in cpd :
          LET f == ParseFields(d)
          IN  IF f.err # NoErr
              THEN /\ Finished(f.err)
                   /\ UNCHANGED <<ref, constructed>>
              ELSE /\ ref' = IF ref # {}
                             THEN { AssignFields(r, f, d) : r \in ref }
                             ELSE { NewRef(f, d) }
                   /\ constructed' = (ref = {})
                   /\ IF query_ads
                      THEN pc' = "search" /\ UNCHANGED outcome
                      ELSE Finished(NoErr)
    /\ UNCHANGED <<doi_vars, fmt_vars, ref_vars, api_vars, store,
                   existing, query_ads, cpd, before,
                   fetch_resp, search_resp, n_search, bibcode, n_export,
                   attempts, retries, retry_cause, export_resp, title_html,
                   title_latex>>

\* Lines 401-403: get_bibcode(doi), one GET, and the bibcode stored if one
\* was found.
Search ==
    /\ pc = "search"
    /\ \E resp \in SearchResponses :
          LET b == get_bibcode(resp)
          IN  /\ search_resp' = resp
              /\ n_search' = n_search + 1
              /\ bibcode' = b.val
              /\ IF b.err # NoErr
                 THEN Finished(b.err) /\ UNCHANGED <<ref, retries>>
                 ELSE IF b.val = {} \/ b.val = {<<>>}
                 THEN Finished(NoErr) /\ UNCHANGED <<ref, retries>>
                 ELSE /\ ref' = { [r EXCEPT !.bibcode = v] : r \in ref, v \in b.val }
                      /\ pc' = "export_html"
                      /\ retries' = RetryTotal
                      /\ UNCHANGED outcome
    /\ UNCHANGED <<doi_vars, fmt_vars, ref_vars, api_vars, store,
                   existing, query_ads, cpd, before,
                   constructed, fetch_resp, n_export, attempts, retry_cause,
                   export_resp, title_html, title_latex>>

\* One attempt of the POST of get_title_from_bibcode (lines 325-334), for the
\* HTML title (line 404) or the LaTeX title (line 407), and, when the session
\* hands back a response, lines 335-345 and the conditional store of lines
\* 405-406 or 408-409.
ExportAttempt ==
    /\ pc \in {"export_html", "export_latex"}
    /\ \E resp \in ExportResponses :
          LET step == RetryStep(resp, retries)
              t == TitleOf(resp)
          IN  /\ attempts' = IF retries = RetryTotal THEN 1 ELSE attempts + 1
              /\ n_export' = IF retries = RetryTotal THEN n_export + 1 ELSE n_export
              /\ IF step = "retry"
                 THEN /\ retries' = retries - 1
                      /\ retry_cause' = resp
                      /\ UNCHANGED <<pc, outcome, ref, export_resp, title_html,
                                     title_latex>>
                 ELSE IF step # "return"
                 THEN /\ Finished(step)
                      /\ UNCHANGED <<retries, retry_cause, ref, export_resp,
                                     title_html, title_latex>>
                 ELSE /\ export_resp' = resp
                      /\ IF t.err # NoErr
                         THEN /\ Finished(t.err)
                              /\ UNCHANGED <<retries, retry_cause, ref,
                                             title_html, title_latex>>
                         ELSE IF pc = "export_html"
                         THEN /\ title_html' = {t.val}
                              /\ ref' = { StoreTitle(r, "title_html", t.val) : r \in ref }
                              /\ pc' = "export_latex"
                              /\ retries' = RetryTotal
                              /\ retry_cause' = NoResp
                              /\ UNCHANGED <<outcome, title_latex>>
                         ELSE /\ title_latex' = {t.val}
                              /\ ref' = { StoreTitle(r, "title_latex", t.val) : r \in ref }
                              /\ Finished(NoErr)
                              /\ UNCHANGED <<retries, retry_cause, title_html>>
    /\ UNCHANGED <<doi_vars, fmt_vars, ref_vars, api_vars, store,
                   existing, query_ads, cpd, before,
                   constructed, fetch_resp, search_resp, n_search, bibcode>>

Next ==
    \/ CallGetRefFromDoi
    \/ Fetch
    \/ Parse
    \/ Search
    \/ ExportAttempt

Spec == Init /\ [][Next]_vars

-----------------------------------------------------------------------------
(* Inputs of canonicalize_doi: concatenations of at most MaxPieces pieces. *)

MaxPieces == 3
MaxApply == 2

ResolverPrefixes ==
    { LitHttp \o LitSep \o LitDoiOrg,
      LitHttp \o LitS \o LitSep \o LitDoiOrg,
      LitHttp \o LitSep \o LitDx \o LitDoiOrg,
      LitHttp \o LitS \o LitSep \o LitDx \o LitDoiOrg }

DoiPieces ==
    ResolverPrefixes \cup
    { <<"1", "0", ".", "1", "/", "x">>,
      <<"d", "x", ".", "1", "/", "y">>,
      <<"H", "T", "T", "P", "S", ":", "/", "/", "d", "o", "i", ".", "o", "r", "g", "/">>,
      <<"h", "t", "t", "p", ":", "/", "/", "d", "o", "i", ".", "o", "r", "g">>,
      <<"f", "t", "p", ":", "/", "/", "d", "o", "i", ".", "o", "r", "g", "/">> }

PieceLists == UNION { [1..n -> DoiPieces] : n \in 0..MaxPieces }

DoiInputs == { Concat(ps) : ps \in PieceLists }

InitDoi ==
    /\ doi_arg \in DoiInputs
    /\ doi_res = <<>>
    /\ IdleFmt
    /\ IdleRef
    /\ IdleApi
    /\ store = {}
    /\ IdleCall

\* views.resolve: doi = canonicalize_doi(doi).  A further step applies the
\* function to its own result.
Canonicalize ==
    /\ Len(doi_res) < MaxApply
    /\ doi_res' = Append(doi_res,
                         canonicalize_doi(IF doi_res = <<>> THEN doi_arg
                                          ELSE doi_res[Len(doi_res)]))
    /\ UNCHANGED <<doi_arg, fmt_vars, ref_vars, api_vars, store, call_vars>>

NextDoi == Canonicalize

SpecDoi == InitDoi /\ [][NextDoi]_vars

-----------------------------------------------------------------------------
(* Vocabulary of the claims about canonicalize_doi, from the list of the   *)
(* four resolver prefixes (not from the pattern).                          *)

HasResolverPrefix(s) == \E p \in ResolverPrefixes : StartsWith(s, p)

\* C1: for each of the four resolver prefixes p and every d,
\* canonicalize_doi(p + d) is exactly d, and a string that starts with none
\* of the four prefixes is returned unchanged.
C1_PrefixStripped ==
    Len(doi_res) >= 1 =>
        /\ \A p \in ResolverPrefixes :
              StartsWith(doi_arg, p) => doi_res[1] = DropTo(doi_arg, Len(p) + 1)
        /\ ~HasResolverPrefix(doi_arg) => doi_res[1] = doi_arg

\* C1 witness: a prefixed DOI whose remainder is non-empty has been
\* canonicalized.
C1_Witness ==
    /\ Len(doi_res) >= 1
    /\ HasResolverPrefix(doi_arg)
    /\ doi_res[1] # <<>>
    /\ doi_res[1] # doi_arg

\* C2 (as claimed): applying canonicalize_doi twice gives the same as
\* applying it once, for every input.
C2_Idempotent ==
    Len(doi_res) >= 2 => doi_res[2] = doi_res[1]

\* C2 (amended): applying canonicalize_doi twice gives the same as applying
\* it once for every input that carries a resolver prefix at most once, i.e.
\* whose remainder after one listed prefix does not start with a prefix again.
StripListed(s) ==
    IF HasResolverPrefix(s)
    THEN DropTo(s, Len(CHOOSE p \in ResolverPrefixes : StartsWith(s, p)) + 1)
    ELSE s

C2_IdempotentOnSinglePrefix ==
    (Len(doi_res) >= 2 /\ ~HasResolverPrefix(StripListed(doi_arg)))
        => doi_res[2] = doi_res[1]

C2_Witness ==
    /\ Len(doi_res) >= 2
    /\ HasResolverPrefix(doi_arg)
    /\ ~HasResolverPrefix(StripListed(doi_arg))
    /\ doi_res[2] = doi_res[1]
    /\ doi_res[1] # doi_arg

-----------------------------------------------------------------------------
(* Claims about the resolution pipeline.                                   *)

\* The value a field of the record had when the call started ('' for a
\* record the call constructs).
Prior(field) == IF before = {} THEN <<>> ELSE (CHOOSE r \in before : TRUE)[field]

NoIndexCall == n_search = 0 /\ n_export = 0 /\ attempts = 0

\* C3: when the document's type is not "article-journal" the parse stops with
\* NotImplementedError: no Ref is constructed, an existing record keeps every
\* field, and no literature-index call is made.
C3_UnsupportedTypeHardStop ==
    \A d \in cpd :
        (Has(d, "type") /\ d.type # LitArticleJournal) =>
            /\ pc \in {"parse", "done"}
            /\ pc = "done" => outcome = "NotImplementedError"
            /\ ~constructed
            /\ ref = before
            /\ NoIndexCall

C3_Witness ==
    /\ pc = "done"
    /\ outcome = "NotImplementedError"
    /\ existing
    /\ ref = {OldRef}
    /\ NoIndexCall

\* C4 (as claimed): the fetch fails with UnresolvedDOIError on HTTP 404 and
\* with the generic RefError on every other transport failure, connection
\* failures included.
C4_FetchErrorsAreRefErrors ==
    (pc = "done" /\ cpd = {}) =>
        IF fetch_resp.conn_ok /\ fetch_resp.status = 404
        THEN outcome = "UnresolvedDOIError"
        ELSE outcome = "RefError"

C6_BibcodeResult ==
    (n_search = 1 /\ search_resp.conn_ok /\ search_resp.json_ok) =>
        LET body == search_resp.body
        IN  IF Has(body, "error")
            THEN pc = "done" /\ outcome = "ADSError"
            ELSE Has(body, "responseHeader") =>
                 IF body.responseHeader.status # 0
                 THEN pc = "done" /\ outcome = "ADSError"
                 ELSE (Has(body, "response") /\ Has(body.response, "docs")) =>
                      IF body.response.docs = <<>>
                      THEN bibcode = {} /\ pc = "done" /\ outcome = "returned"
                      ELSE Has(body.response.docs[1], "bibcode") =>
                           /\ bibcode = {body.response.docs[1].bibcode}
                           /\ outcome # "KeyError"

C6_Witness ==
    /\ n_search = 1
    /\ Has(search_resp.body, "response")
    /\ Len(search_resp.body.response.docs) = 2
    /\ bibcode = {BibB}
    /\ pc = "export_html"

\* C7: with query_ads true, an ADSError raised by the bibcode search or by
\* either title export reaches the caller of parse_citeproc_json /
\* get_ref_from_doi: the call ends with ADSError and returns no Ref.
C7_ADSErrorPropagates ==
    LET searchFailed == n_search = 1 /\ get_bibcode(search_resp).err = "ADSError"
        exportFailed == n_export >= 1 /\ TitleOf(export_resp).err = "ADSError"
    IN  /\ (searchFailed \/ exportFailed) => (pc = "done" /\ outcome = "ADSError")
        /\ outcome = "ADSError" => (query_ads /\ (searchFailed \/ exportFailed))

C7_Witness ==
    /\ pc = "done"
    /\ outcome = "ADSError"
    /\ n_export = 2
    /\ export_resp.status = 200
    /\ Has(export_resp.body, "error")
    /\ existing

\* C8: a bibcode that is found is stored on the record; title_html and
\* title_latex are overwritten only by a fetched title that is non-empty, and
\* an empty fetched title leaves the value the record had before.
C8_TitlesOverwrittenOnlyIfNonEmpty ==
    \A r \in ref :
        /\ (n_search = 1 /\ get_bibcode(search_resp).err = NoErr) =>
              \A b \in bibcode : r.bibcode = b
        /\ \A t \in title_html :
              r.title_html = IF t # <<>> THEN t ELSE Prior("title_html")
        /\ title_html = {} => r.title_html = Prior("title_html")
        /\ \A t \in title_latex :
              r.title_latex = IF t # <<>> THEN t ELSE Prior("title_latex")
        /\ title_latex = {} => r.title_latex = Prior("title_latex")

C8_Witness ==
    /\ pc = "done"
    /\ outcome = "returned"
    /\ existing
    /\ title_html = {<<>>}
    /\ title_latex = {<<"<", "i", ">", "T">>}
    /\ \A r \in ref : /\ r.title_html = OldRef.title_html
                      /\ r.title_latex = <<"<", "i", ">", "T">>
                      /\ r.bibcode = BibA

\* C9: given an existing record, parse_citeproc_json returns that record with
\* authors, title, journal, volume, year, page_start, page_end, doi, url and
\* article_number overwritten from the new document, a field the document
\* lacks being reset, not kept; with or without an existing record the
\* returned record's citeproc_json is the raw document text.
C9_LastWriteWins ==
    (pc = "done" /\ outcome = "returned") =>
        \A r \in ref, d \in cpd :
            LET f == ParseFields(d)
            IN  /\ constructed = ~existing
                /\ \A k \in BaseFields : r[k] = f[k]
                /\ r.citeproc_json = {d}
                /\ ~Has(d, "author") => r.authors = <<>>
                /\ ~Has(d, "title") => r.title = <<>>
                /\ ~Has(d, "container-title") => r.journal = <<>>
                /\ ~Has(d, "volume") => r.volume = <<>>
                /\ ~Has(d, "issued") => r.year = {}
                /\ ~Has(d, "page") => (r.page_start = <<>> /\ r.page_end = <<>>)
                /\ ~Has(d, "DOI") => r.doi = <<>>
                /\ ~Has(d, "URL") => r.url # Prior("url")
                /\ ~Has(d, "article-number") => r.article_number = <<>>

C9_Witness ==
    /\ pc = "done"
    /\ outcome = "returned"
    /\ existing
    /\ ~constructed
    /\ \E d \in cpd : ~Has(d, "volume") /\ Has(d, "title")
    /\ \A r \in ref : /\ r.volume = <<>>
                      /\ r.title = <<"T", " ", "X">>
                      /\ r.note = OldRef.note
    /\ before = {OldRef}

\* C10 (as claimed): with query_ads false, an article-journal document with
\* any of its optional fields missing is parsed without an exception, and
\* the record field of each missing one is empty (no value for year).
C10_MissingFieldsEmpty ==
    (pc = "done" /\ ~query_ads) =>
        \A d \in cpd \cap PartialDocs :
            /\ outcome = "returned"
            /\ \A r \in ref :
                  /\ ~Has(d, "author") => r.authors = <<>>
                  /\ ~Has(d, "title") => r.title = <<>>
                  /\ ~Has(d, "container-title") => r.journal = <<>>
                  /\ ~Has(d, "volume") => r.volume = <<>>
                  /\ ~Has(d, "page") => (r.page_start = <<>> /\ r.page_end = <<>>)
                  /\ ~Has(d, "article-number") => r.article_number = <<>>
                  /\ ~Has(d, "DOI") => r.doi = <<>>
                  /\ ~Has(d, "URL") => r.url = <<>>
                  /\ ~Has(d, "issued") => r.year = {}

-----------------------------------------------------------------------------
(* get_citeproc_authors as a function of the author list of a citation     *)
(* document: lists of at most MaxAuthors entries.                          *)

MaxAuthors == 3

\* Entries as the resolver delivers them: a person with family and given
\* name (one token, several tokens, padded with blanks), a person without
\* given name, a collaboration with a name only, and the malformed entries
\* (blank given name, neither family nor name).
AuthorEntries ==
    { [family |-> <<"r", "i", "c", "h", "a", "r", "d">>, given |-> <<"P">>],
      [family |-> <<"h", "i", "l", "l">>, given |-> <<"C", "h", "r", "i", "s", " ", "P", ".">>],
      [family |-> <<"v", "a", "n", " ", "d", "e", "r", " ", "w">>,
       given |-> <<" ", "j", "o", " ", " ", "M", " ">>],
      [family |-> <<"S", "M", "I", "T", "H">>],
      [name |-> <<"J", "E", "T", " ", "c">>],
      [name |-> <<"x", " ", "y">>, given |-> <<"Q">>],
      [family |-> <<"l", "i">>, name |-> <<"L", "I">>],
      [family |-> <<"l", "i">>, given |-> <<" ">>],
      [given |-> <<"Q">>] }

AuthorLists == UNION { [1..n -> AuthorEntries] : n \in 0..MaxAuthors }

InitAuthors ==
    /\ author_arg \in AuthorLists
    /\ author_res = <<>>
    /\ page_arg = <<>>
    /\ page_res = <<>>
    /\ doi_arg = <<>>
    /\ doi_res = <<>>
    /\ IdleRef
    /\ IdleApi
    /\ store = {}
    /\ IdleCall

\* Line 354: authors = get_citeproc_authors(cpd.get('author', '')).
GetCiteprocAuthors ==
    /\ author_res = <<>>
    /\ author_res' = <<get_citeproc_authors(author_arg)>>
    /\ UNCHANGED <<author_arg, page_arg, page_res, doi_vars, ref_vars,
                   api_vars, store, call_vars>>

NextAuthors == GetCiteprocAuthors

SpecAuthors == InitAuthors /\ [][NextAuthors]_vars

(* Vocabulary of the claim about author formatting. *)

\* The first character of the first whitespace-separated token of given,
\* followed by a period.
InitialOf(given) == <<SplitWs(given)[1][1], ".">>

\* The entry has a given name with at least one token.
HasGivenToken(author) == Has(author, "given") /\ SplitWs(author.given) # <<>>

\* The entries the function formats: a family name with no given name or
\* with a given name that has a token, or no family name but a name.
Formattable(author) ==
    IF Has(author, "family")
    THEN Has(author, "given") => HasGivenToken(author)
    ELSE Has(author, "name")

\* "<initial>. <Family>" and nothing else of given.
InitialAndFamily(author) ==
    IF ~Has(author, "family") THEN author.name
    ELSE IF ~Has(author, "given") THEN Title(author.family)
    ELSE InitialOf(author.given) \o <<" ">> \o Title(author.family)

\* "<initial>. <the other tokens of given> <Family>".
InitialTokensAndFamily(author) ==
    IF ~Has(author, "family") THEN author.name
    ELSE IF ~Has(author, "given") THEN Title(author.family)
    ELSE LET tokens == SplitWs(author.given)
         IN  InitialOf(author.given)
             \o Concat([k \in 1..(Len(tokens) - 1) |-> <<" ">> \o tokens[k + 1]])
             \o <<" ">> \o Title(author.family)

\* The names joined with ", " in input order.
CommaJoined(names) ==
    Concat([k \in 1..Len(names) |->
              IF k = 1 THEN names[k] ELSE <<",", " ">> \o names[k]])

\* C11 (as stated): every list of formattable entries gives the entries as
\* "<initial>. <Family>" (no other token of the given name), the title-cased
\* family name alone, or the name verbatim, joined with ", " in input order.
C11_InitialAndFamilyOnly ==
    (author_res # <<>> /\ \A k \in 1..Len(author_arg) : Formattable(author_arg[k]))
    => /\ author_res[1].err = NoErr
       /\ author_res[1].val =
            CommaJoined([k \in 1..Len(author_arg) |-> InitialAndFamily(author_arg[k])])

\* C11 (amended): the tokens of the given name after the first are kept, in
\* order and separated by single blanks, between the initial and the family
\* name; the other two forms and the joining are as stated; a list with an
\* entry that cannot be formatted raises (IndexError for a blank given name,
\* KeyError for an entry with neither family nor name) at its first such entry.
C11_InitialTokensAndFamily ==
    author_res # <<>>
    => LET bad == { k \in 1..Len(author_arg) : ~Formattable(author_arg[k]) }
       IN  IF bad = {}
           THEN /\ author_res[1].err = NoErr
                /\ author_res[1].val =
                     CommaJoined([k \in 1..Len(author_arg) |->
                                    InitialTokensAndFamily(author_arg[k])])
           ELSE LET first == CHOOSE k \in bad : \A j \in bad : k <= j
                IN  author_res[1].err =
                      IF Has(author_arg[first], "family") THEN "IndexError"
                      ELSE "KeyError"

\* The function has formatted a list with a person of several given names, a
\* person without given name and a collaboration.
C11_Witness ==
    /\ author_res # <<>>
    /\ Len(author_arg) = 3
    /\ Has(author_arg[1], "given") /\ Len(SplitWs(author_arg[1].given)) = 2
    /\ DOMAIN author_arg[2] = {"family"}
    /\ DOMAIN author_arg[3] = {"name"}
    /\ author_res[1].err = NoErr
    /\ author_res[1].val # <<>>

-----------------------------------------------------------------------------
(* refs/models.py: the derived operations of a Ref instance.  A saved Ref  *)
(* is a record with the fields of BlankRef and its primary key id.         *)

\* s.strip()
RECURSIVE LStrip(_)
LStrip(s) == IF s # <<>> /\ Head(s) \in Whitespace THEN LStrip(Tail(s)) ELSE s

RECURSIVE RStrip(_)
RStrip(s) ==
    IF s # <<>> /\ s[Len(s)] \in Whitespace THEN RStrip(SubSeq(s, 1, Len(s) - 1))
    ELSE s

Strip(s) == RStrip(LStrip(s))

\* Line 148: [e.strip() for e in self.authors.split(',')].
authors_list(this) ==
    LET es == Split(this.authors, <<",">>)
    IN  [k \in 1..Len(es) |-> Strip(es[k])]

\* authors[:n] of a Python list, for n >= 0.
Take(xs, n) == SubSeq(xs, 1, IF n < Len(xs) THEN n ELSE Len(xs))

\* Lines 150-173.  nmax is {} for None and {m} for the number m.
shorten_authors(this, nmax, nret) ==
    IF nmax = {} THEN this.authors
    ELSE IF this.authors = <<>> THEN <<>>
    ELSE LET authors == Split(this.authors, <<",">>)
             nauthors == Len(authors)
         IN  IF nauthors = 1 THEN this.authors
             ELSE IF \E m \in nmax : nauthors > m
             THEN Join(Take(authors, nret), <<",", " ">>) \o <<" ", "e", "t", " ", "a", "l", ".">>
             ELSE Join(Take(authors, nauthors - 1), <<",", " ">>)
                  \o <<" ", "a", "n", "d", " ">> \o authors[nauthors]

\* '{}'.format(n) and '%d' % n for an integer n >= 0.
Digits == <<"0", "1", "2", "3", "4", "5", "6", "7", "8", "9">>

RECURSIVE IntToText(_)
IntToText(n) ==
    IF n < 10 THEN <<Digits[n + 1]>>
    ELSE IntToText(n \div 10) \o <<Digits[(n % 10) + 1]>>

\* Lines 122-125: 'B{}'.format(self.id).
qualified_id(this) == <<"B">> \o IntToText(this.id)

\* The class attribute source_type (line 40).
source_type == <<"a", "r", "t", "i", "c", "l", "e">>

\* Line 33 of refs/utils.py: key_name.replace('-', '_'), on the keys that
\* serialize passes.
AttrOf ==
    [title |-> "title", journal |-> "journal", volume |-> "volume",
     year |-> "year", note |-> "note", doi |-> "doi", bibcode |-> "bibcode",
     url |-> "url"]
    @@ ("page-start" :> "page_start") @@ ("page-end" :> "page_end")
    @@ ("article-number" :> "article_number")

\* The attributes whose value may be None: year is a nullable IntegerField
\* (line 76), the text fields are not nullable.
NullableAttrs == {"year"}

\* val is not None and val != ''   (line 36 of refs/utils.py)
NotBlank(obj, attr) ==
    IF attr \in NullableAttrs THEN obj[attr] # {} ELSE obj[attr] # <<>>

\* add_optional_kv that stores every value.
add_optional_kv_always(d, key_name, obj) ==
    (key_name :> obj[AttrOf[key_name]]) @@ d

\* add_optional_kv(d, key_name, obj), lines 29-40 of refs/utils.py, as the
\* dictionary d after the call (attr and func are not passed by serialize).
\* A value that may be None is stored as it is held: {v} for v.
add_optional_kv(d, key_name, obj) ==
    IF NotBlank(obj, AttrOf[key_name])
    THEN (key_name :> obj[AttrOf[key_name]]) @@ d
    ELSE d

\* The tuple fields of serialize (lines 248-249).
SerializeFields ==
    <<"title", "journal", "volume", "page-start", "page-end", "article-number",
      "year", "note", "doi", "bibcode", "url">>

RECURSIVE AddFields(_, _, _)
AddFields(d, ks, obj) ==
    IF ks = <<>> THEN d
    ELSE AddFields(add_optional_kv(d, Head(ks), obj), Tail(ks), obj)

\* Lines 243-252.
serialize(this) ==
    LET d0 == ("qid" :> qualified_id(this)) @@ ("source-type" :> source_type)
        d1 == IF this.authors # <<>> THEN ("authors" :> authors_list(this)) @@ d0
              ELSE d0
    IN  AddFields(d1, SerializeFields, this)

(* Markup text is a sequence of strings: the characters of the field       *)
(* values, and one string for each piece of literal markup.                *)

\* Lines 108-114: _get_or_missing for a text field.
GetOrMissing(this, field_name) ==
    IF this[field_name] = <<>> THEN <<"[missing ", field_name, "]">>
    ELSE this[field_name]

\* Lines 127-136: _make_url_html(s_url).
MakeUrlHtml(this, s_url) ==
    IF s_url # <<>>
    THEN <<"<span class=\"noprint\"> [<a href=\"">> \o s_url \o <<"\">">>
         \o (IF this.doi # <<>> THEN this.doi ELSE s_url) \o <<"</a>]</span>">>
    ELSE <<>>

\* Lines 138-144: _make_url_html_from_doi.
MakeUrlHtmlFromDoi(this) ==
    IF this.doi # <<>>
    THEN MakeUrlHtml(this, <<"https://dx.doi.org/">> \o this.doi)
    ELSE <<>>

\* The page segment that ignores the article number.
HtmlPages_keep_pages(this) ==
    LET pages == IF this.page_start = <<>> THEN <<" ">>
                 ELSE IF this.page_end # <<>>
                 THEN <<",", " ">> \o this.page_start \o <<"-">> \o this.page_end
                 ELSE <<",", " ">> \o this.page_start
    IN  IF this.article_number # <<>>
        THEN [s_pages |-> pages,
              s_article_number |-> <<",", " ">> \o this.article_number \o <<" ">>]
        ELSE IF pages # <<" ">>
        THEN [s_pages |-> pages, s_article_number |-> <<>>]
        ELSE [s_pages |-> pages, s_article_number |-> <<" ">>]

\* Lines 209-221 of html_article: s_pages and s_article_number.
HtmlPages(this) ==
    LET pages == IF this.page_start = <<>> THEN <<" ">>
                 ELSE IF this.page_end # <<>>
                 THEN <<",", " ">> \o this.page_start \o <<"-">> \o this.page_end
                 ELSE <<",", " ">> \o this.page_start
    IN  IF this.article_number # <<>>
        THEN [s_pages |-> <<>>,
              s_article_number |-> <<",", " ">> \o this.article_number \o <<" ">>]
        ELSE IF pages # <<" ">>
        THEN [s_pages |-> pages, s_article_number |-> <<>>]
        ELSE [s_pages |-> pages, s_article_number |-> <<" ">>]

\* Lines 197-231: html_article(pk, authors_nmax); year 0 is falsy.
html_article(this, pk, authors_nmax) ==
    LET s_pk == IF pk THEN <<"B">> \o IntToText(this.id) \o <<":", " ">> ELSE <<>>
        short == shorten_authors(this, authors_nmax, 1)
        s_authors == IF short # <<>> THEN short \o <<",", " ">> ELSE <<>>
        s_title == <<"\"">>
                   \o (IF this.title_html # <<>> THEN this.title_html
                       ELSE GetOrMissing(this, "title"))
                   \o <<"\"">>
        s_journal == <<"<em>">> \o GetOrMissing(this, "journal") \o <<"</em>">>
        s_volume == IF this.volume # <<>> THEN <<" <b>">> \o this.volume \o <<"</b>">>
                    ELSE <<>>
        p == HtmlPages(this)
        s_year == IF this.year # {} /\ this.year # {0}
                  THEN <<"(">> \o IntToText(CHOOSE y \in this.year : TRUE) \o <<")">>
                  ELSE <<>>
        s_url == IF MakeUrlHtml(this, this.url) # <<>> THEN MakeUrlHtml(this, this.url)
                 ELSE MakeUrlHtmlFromDoi(this)
    IN  [s_pages |-> p.s_pages,
         s_article_number |-> p.s_article_number,
         s |-> s_pk \o s_authors \o s_title \o <<",", " ">> \o s_journal \o s_volume
               \o p.s_pages \o p.s_article_number \o <<" ">> \o s_year
               \o <<".", " ">> \o s_url]

-----------------------------------------------------------------------------
(* The XSAMS exporter: src/refs/xsams_utils.py and the two copies of       *)
(* xsams_generators.py, refs/ and src/refs/ (the packaged one).            *)

\* escape that leaves ">" as it is.
escape_keep_gt(data) ==
    [k \in 1..Len(data) |->
        IF data[k] = "&" THEN "&amp;"
        ELSE IF data[k] = "<" THEN "&lt;"
        ELSE data[k]]

\* xml.sax.saxutils.escape(data): &, > and < replaced by their entities.
escape(data) ==
    [k \in 1..Len(data) |->
        IF data[k] = "&" THEN "&amp;"
        ELSE IF data[k] = ">" THEN "&gt;"
        ELSE IF data[k] = "<" THEN "&lt;"
        ELSE data[k]]

\* urllib.parse.quote(url, safe="%:=/?~#+!$,;'@()*") on the characters of
\* the model's URLs: letters, digits, "_.-~" and the safe characters are
\* kept, the others are percent-encoded.
PercentCode == (" " :> "%20") @@ ("&" :> "%26") @@ ("<" :> "%3C") @@ (">" :> "%3E")

quote(url) ==
    [k \in 1..Len(url) |->
        IF url[k] \in DOMAIN PercentCode THEN PercentCode[url[k]] ELSE url[k]]

\* NODEID = xsams_settings.NODEID (line 12 of xsams_utils.py): a configured
\* text.
NODEID == <<"N", "O", "D", "E">>

\* make_xsams_id(prefix, id): "%s%s-%d" % (prefix, NODEID, id).
make_xsams_id(prefix, id) == prefix \o NODEID \o <<"-">> \o IntToText(id)

\* make_attrs_string(attrs) for the attributes as a list of <<name, value>>.
make_attrs_string(attrs) ==
    Join([k \in 1..Len(attrs) |-> attrs[k][1] \o <<"=\"">> \o attrs[k][2] \o <<"\"">>],
         <<" ">>)

\* "<%s %s>%s</%s>" % (tag_name, s_attrs, contents, tag_name)
Element(tag_name, s_attrs, contents) ==
    <<"<", tag_name, " ">> \o s_attrs \o <<">">> \o contents \o <<"</", tag_name, ">">>

\* make_mandatory_tag(tag_name, contents, default, attrs), lines 38-50.
\* contents is {} for None and {text} for a text.
make_mandatory_tag(tag_name, contents, default, attrs) ==
    Element(tag_name, make_attrs_string(attrs),
            IF contents = {} THEN default ELSE CHOOSE c \in contents : TRUE)

\* make_optional_tag(tag_name, contents, attrs), lines 53-63.
make_optional_tag(tag_name, contents, attrs) ==
    IF contents = {} THEN <<>>
    ELSE Element(tag_name, make_attrs_string(attrs), CHOOSE c \in contents : TRUE)

\* xsams_source_type(source_type), lines 142-147.
xsams_source_type(type) ==
    IF type = source_type THEN <<"j", "o", "u", "r", "n", "a", "l">> ELSE type

\* The two copies of the generator module.
Packaged == "src/refs"
Legacy == "refs"
Modules == {Packaged, Legacy}

\* xsams_source(ref) of the copy `module`: the fragments it yields, in
\* order.  The copies differ in the first fragment (refs/ line 45 against
\* src/refs/ line 53) and in the journal name (line 58 against line 66).
xsams_source(module, this) ==
    << <<"<Source sourceID=\"">> \o make_xsams_id(<<"B">>, this.id)
         \o (IF module = Legacy THEN <<"s">> ELSE <<>>) \o <<"\">">> >>
    \o (IF this.note # <<>>
        THEN << <<"<Comments>">> \o escape(this.note) \o <<"</Comments>">> >>
        ELSE <<>>)
    \o << <<"<Authors>">> >>
    \o [k \in 1..Len(authors_list(this)) |->
          <<"<Author><Name>">> \o authors_list(this)[k] \o <<"</Name></Author>">>]
    \o << <<"</Authors>">>,
          make_mandatory_tag("Title", {escape(this.title)},
                             <<"[This source does not have a title]">>, <<>>),
          make_mandatory_tag("Category", {xsams_source_type(source_type)}, <<>>, <<>>),
          make_mandatory_tag("Year", { IntToText(y) : y \in this.year },
                             <<"9", "9", "9", "9">>, <<>>),
          make_optional_tag("SourceName",
                            {IF module = Legacy THEN this.journal
                             ELSE Replace(this.journal, <<"&">>, <<"a", "n", "d">>)},
                            <<>>),
          make_optional_tag("Volume", {this.volume}, <<>>),
          make_optional_tag("PageBegin", {this.page_start}, <<>>),
          make_optional_tag("PageEnd", {this.page_end}, <<>>),
          make_optional_tag("ArticleNumber", {this.article_number}, <<>>),
          make_optional_tag("UniformResourceIdentifier", {quote(this.url)}, <<>>),
          make_optional_tag("DigitalObjectIdentifier", {this.doi}, <<>>),
          <<"</Source>\n">> >>

\* xsams_sources(sources) of the copy `module`: lines 79-91 (refs/: 69-81).
xsams_sources(module, srcs) ==
    << <<"<Sources>\n">> >>
    \o Concat([k \in 1..Len(srcs) |-> xsams_source(module, srcs[k])])
    \o << <<"</Sources>\n">> >>

-----------------------------------------------------------------------------
(* The methods of one saved Ref: the records that have at most             *)
(* MaxDeviations of their optional fields empty, or at most MaxDeviations  *)
(* of them filled in, with each of the authors strings.                    *)

MaxDeviations == 2
MaxNmax == 3
MaxNret == 2

\* A record with every field filled in.
FullRef ==
    [id |-> 7,
     authors |-> <<"A", ".", " ", "N", ",", " ", "B", ",", " ", "C">>,
     title |-> <<"T", "<", "&">>, title_html |-> <<"<i>", "T">>,
     title_latex |-> <<>>,
     journal |-> <<"J", "&", "K">>, volume |-> <<"5">>,
     page_start |-> <<"1">>, page_end |-> <<"9">>,
     article_number |-> <<"A", "7">>, year |-> {2001}, note |-> <<"n", ">">>,
     doi |-> <<"1", "0", ".", "1", "/", "x">>, bibcode |-> <<"b">>,
     url |-> <<"h", "t", "t", "p", "s", ":", "/", "/", "x", " ", "y">>,
     citeproc_json |-> {}]

OptionalFields ==
    {"title", "title_html", "journal", "volume", "page_start", "page_end",
     "article_number", "year", "note", "doi", "bibcode", "url"}

\* FullRef with the optional fields outside ks at their defaults.
Only(ks) ==
    [f \in DOMAIN FullRef |->
        IF f \in OptionalFields \ ks THEN BlankRef[f] ELSE FullRef[f]]

FieldPatterns ==
    { ks \in SUBSET OptionalFields :
        \/ Cardinality(ks) <= MaxDeviations
        \/ Cardinality(ks) >= Cardinality(OptionalFields) - MaxDeviations }

\* Authors strings: none, one name, the documented "A, B, C" form with two,
\* three and four names, and names separated without or with extra blanks.
AuthorsStrings ==
    { <<>>,
      <<"A", ".", " ", "N">>,
      <<"A", ",", " ", "B">>,
      FullRef.authors,
      <<"A", ",", " ", "B", ",", " ", "C", ",", " ", "D">>,
      <<"A", ",", "B">>,
      <<" ", "A", " ", ",", "B", " ">> }

Ids == {7, 12}

RefInputs ==
    { [Only(ks) EXCEPT !.authors = a, !.id = n] :
        ks \in FieldPatterns, a \in AuthorsStrings, n \in Ids }

\* The values of nmax: None and 0..MaxNmax.
NmaxValues == {{}} \cup { {m} : m \in 0..MaxNmax }

InitRef ==
    /\ self \in RefInputs
    /\ sources = <<>>
    /\ ret = NoRet
    /\ doi_arg = <<>>
    /\ doi_res = <<>>
    /\ IdleFmt
    /\ IdleApi
    /\ store = {}
    /\ IdleCall

OtherThanRet == <<self, sources, doi_vars, fmt_vars, api_vars, store, call_vars>>

\* ref.authors_list
AuthorsList ==
    /\ ret = NoRet
    /\ ret' = [ret EXCEPT !.authors_list = <<authors_list(self)>>]
    /\ UNCHANGED OtherThanRet

\* ref.shorten_authors(nmax, nret)
ShortenAuthors ==
    /\ ret = NoRet
    /\ \E nmax \in NmaxValues, nret \in 0..MaxNret :
          ret' = [ret EXCEPT !.shorten_authors =
                    <<[nmax |-> nmax, nret |-> nret,
                       val |-> shorten_authors(self, nmax, nret)]>>]
    /\ UNCHANGED OtherThanRet

\* ref.serialize()
Serialize ==
    /\ ret = NoRet
    /\ ret' = [ret EXCEPT !.serialize = <<serialize(self)>>]
    /\ UNCHANGED OtherThanRet

\* ref.html_article(pk, authors_nmax)
HtmlArticle ==
    /\ ret = NoRet
    /\ \E pk \in BOOLEAN, nmax \in NmaxValues :
          ret' = [ret EXCEPT !.html_article = <<html_article(self, pk, nmax)>>]
    /\ UNCHANGED OtherThanRet

\* xsams_source(ref) of either copy of the generator module, consumed to
\* its end.
XsamsSource ==
    /\ ret = NoRet
    /\ \E module \in Modules :
          ret' = [ret EXCEPT !.xsams_source =
                    <<[module |-> module, out |-> xsams_source(module, self)]>>]
    /\ UNCHANGED OtherThanRet

NextRef ==
    \/ AuthorsList
    \/ ShortenAuthors
    \/ Serialize
    \/ HtmlArticle
    \/ XsamsSource

SpecRef == InitRef /\ [][NextRef]_vars

-----------------------------------------------------------------------------
(* xsams_sources on lists of at most MaxSources saved Refs.                *)

MaxSources == 2

\* Records with different primary keys, each with every field filled in or
\* with only the authors.
SourceRefs ==
    { [r EXCEPT !.id = n] : r \in {FullRef, Only({})}, n \in {1, 2, 12} }

SourceLists == UNION { [1..n -> SourceRefs] : n \in 0..MaxSources }

InitSources ==
    /\ self = BlankRef
    /\ sources \in SourceLists
    /\ ret = NoRet
    /\ doi_arg = <<>>
    /\ doi_res = <<>>
    /\ IdleFmt
    /\ IdleApi
    /\ store = {}
    /\ IdleCall

\* xsams_sources(sources) of either copy of the generator module, consumed
\* to its end.
XsamsSources ==
    /\ ret = NoRet
    /\ \E module \in Modules :
          ret' = [ret EXCEPT !.xsams_sources =
                    <<[module |-> module, out |-> xsams_sources(module, sources)]>>]
    /\ UNCHANGED OtherThanRet

NextSources == XsamsSources

SpecSources == InitSources /\ [][NextSources]_vars

-----------------------------------------------------------------------------
(* Vocabulary of the claims about the methods of a Ref and the exporter.   *)

\* The names of an authors string: its comma-separated entries, trimmed;
\* none for the empty string.
NamesOf(a) ==
    IF a = <<>> THEN <<>>
    ELSE [k \in 1..Len(Split(a, <<",">>)) |-> Strip(Split(a, <<",">>)[k])]

\* The authors string is written in the documented form "A, B, C".
DocumentedForm(a) ==
    /\ a = CommaJoined(NamesOf(a))
    /\ \A k \in 1..Len(NamesOf(a)) : NamesOf(a)[k] # <<>>

\* The fragments of a generator's output that open an element `tag` built
\* by make_mandatory_tag or make_optional_tag.
ElementsOf(out, tag) ==
    { k \in 1..Len(out) : Len(out[k]) >= 2 /\ out[k][1] = "<" /\ out[k][2] = tag }

\* The text between the opening and the closing tag of such a fragment
\* (built without attributes).
ContentsOf(fragment) == SubSeq(fragment, 5, Len(fragment) - 3)

\* The fragments that are an Author element.
AuthorElements(out) ==
    { k \in 1..Len(out) : out[k] # <<>> /\ out[k][1] = "<Author><Name>" }

\* C12: authors_list returns the comma-separated entries of authors, each
\* trimmed, and the empty list for the empty string, so that the Source
\* element of a record without authors has no Author element.
C12_AuthorsListEmptyForNoAuthors ==
    /\ ret.authors_list # <<>>
       => /\ ret.authors_list[1] = NamesOf(self.authors)
          /\ self.authors = <<>> => ret.authors_list[1] = <<>>
    /\ (ret.xsams_source # <<>> /\ self.authors = <<>>)
       => AuthorElements(ret.xsams_source[1].out) = {}

\* C13: on an authors string of n names in the documented form,
\* shorten_authors(nmax, nret) returns the string itself when nmax is None
\* or n <= 1, the first nret names joined with ", " and followed by
\* " et al." when n > nmax, and otherwise the names but the last joined with
\* ", ", then " and ", then the last name.
C13_ShortenAuthors ==
    (ret.shorten_authors # <<>> /\ DocumentedForm(self.authors))
    => LET r == ret.shorten_authors[1]
           names == NamesOf(self.authors)
           n == Len(names)
       IN  IF r.nmax = {} \/ n <= 1 THEN r.val = self.authors
           ELSE IF \E m \in r.nmax : n > m
           THEN r.val = CommaJoined(Take(names, r.nret))
                        \o <<" ", "e", "t", " ", "a", "l", ".">>
           ELSE r.val = CommaJoined(Take(names, n - 1))
                        \o <<" ", "a", "n", "d", " ">> \o names[n]

\* The hyphenated keys of serialize and the stored text fields they name.
TextKeys ==
    { <<"title", "title">>, <<"journal", "journal">>, <<"volume", "volume">>,
      <<"page-start", "page_start">>, <<"page-end", "page_end">>,
      <<"article-number", "article_number">>, <<"note", "note">>,
      <<"doi", "doi">>, <<"bibcode", "bibcode">>, <<"url", "url">> }

\* C14: serialize() always holds qid ("B" and the id) and source-type
\* "article", holds authors iff the authors string is not empty, holds each
\* hyphenated key iff the stored field is neither None nor the empty string,
\* with the stored value, and holds no other key and no null or empty value.
C14_SerializeOmitsEmpty ==
    ret.serialize # <<>>
    => LET d == ret.serialize[1]
       IN  /\ Has(d, "qid") /\ d.qid = <<"B">> \o IntToText(self.id)
           /\ Has(d, "source-type")
           /\ d["source-type"] = <<"a", "r", "t", "i", "c", "l", "e">>
           /\ Has(d, "authors") <=> self.authors # <<>>
           /\ \A p \in TextKeys :
                 /\ Has(d, p[1]) <=> self[p[2]] # <<>>
                 /\ Has(d, p[1]) => d[p[1]] = self[p[2]]
           /\ Has(d, "year") <=> self.year # {}
           /\ Has(d, "year") => d.year = self.year
           /\ DOMAIN d \subseteq
                 {"qid", "source-type", "authors", "year"} \cup { p[1] : p \in TextKeys }
           /\ \A k \in DOMAIN d : IF k = "year" THEN d[k] # {} ELSE d[k] # <<>>

\* serialize() has run on a record without authors, year and note and with
\* its other fields filled in.
C14_Witness ==
    /\ ret.serialize # <<>>
    /\ self.authors = <<>> /\ self.year = {} /\ self.note = <<>>
    /\ \A p \in TextKeys : p[2] # "note" => self[p[2]] # <<>>
    /\ DOMAIN ret.serialize[1] =
          {"qid", "source-type"} \cup ({ p[1] : p \in TextKeys } \ {"note"})

\* The record has an article number and both pages.
NumberAndPages(this) ==
    this.article_number # <<>> /\ this.page_start # <<>> /\ this.page_end # <<>>

\* serialize() of the record holds both pages and the article number.
SerializeKeepsNumberAndPages(this) ==
    /\ {"page-start", "page-end", "article-number"} \subseteq DOMAIN serialize(this)
    /\ serialize(this)["page-start"] = this.page_start
    /\ serialize(this)["page-end"] = this.page_end
    /\ serialize(this)["article-number"] = this.article_number

\* C15 (as stated): the Source element of a record with an article number
\* and both pages contains ArticleNumber and neither PageBegin nor PageEnd,
\* while serialize() holds page-start, page-end and article-number.
C15_SourceDropsPages ==
    (ret.xsams_source # <<>> /\ NumberAndPages(self))
    => LET out == ret.xsams_source[1].out
       IN  /\ ElementsOf(out, "ArticleNumber") # {}
           /\ ElementsOf(out, "PageBegin") = {}
           /\ ElementsOf(out, "PageEnd") = {}
           /\ SerializeKeepsNumberAndPages(self)

\* C15 (amended): for a record with an article number and both pages, the
\* HTML citation shows the article number and no page range; the Source
\* element contains ArticleNumber, PageBegin and PageEnd, once each and with
\* the stored values; serialize() holds the three fields.
C15_OnlyHtmlDropsPages ==
    /\ (ret.html_article # <<>> /\ NumberAndPages(self))
       => /\ ret.html_article[1].s_pages = <<>>
          /\ ret.html_article[1].s_article_number
               = <<",", " ">> \o self.article_number \o <<" ">>
          /\ SerializeKeepsNumberAndPages(self)
    /\ (ret.xsams_source # <<>> /\ NumberAndPages(self))
       => LET out == ret.xsams_source[1].out
          IN  /\ \A p \in { <<"ArticleNumber", "article_number">>,
                            <<"PageBegin", "page_start">>,
                            <<"PageEnd", "page_end">> } :
                    /\ Cardinality(ElementsOf(out, p[1])) = 1
                    /\ \A k \in ElementsOf(out, p[1]) : ContentsOf(out[k]) = self[p[2]]
              /\ SerializeKeepsNumberAndPages(self)

\* The Source element of a record with an article number and both pages
\* has been produced, with the three elements.
C15_Witness ==
    /\ NumberAndPages(self)
    /\ ret.xsams_source # <<>>
    /\ ElementsOf(ret.xsams_source[1].out, "PageBegin") # {}
    /\ ElementsOf(ret.xsams_source[1].out, "PageEnd") # {}
    /\ ElementsOf(ret.xsams_source[1].out, "ArticleNumber") # {}

\* The fragments that open a Source element, in output order.
RECURSIVE SourceOpenings(_)
SourceOpenings(out) ==
    IF out = <<>> THEN <<>>
    ELSE (IF Head(out) # <<>> /\ Head(out)[1] = "<Source sourceID=\"" THEN <<Head(out)>>
          ELSE <<>>)
         \o SourceOpenings(Tail(out))

\* The number of fragments of out that are the text t.
Occurrences(out, t) == Cardinality({ k \in 1..Len(out) : out[k] = t })

\* C16: xsams_sources emits one opening Sources tag, then one Source
\* element per Ref in input order, then one closing Sources tag, and the
\* sourceID of the element of a Ref with id n is "B", the node identifier,
\* a hyphen and n.
C16_OneSourcePerRefInOrder ==
    ret.xsams_sources # <<>>
    => LET out == ret.xsams_sources[1].out
           opens == SourceOpenings(out)
       IN  /\ out[1] = <<"<Sources>\n">>
           /\ out[Len(out)] = <<"</Sources>\n">>
           /\ Occurrences(out, <<"<Sources>\n">>) = 1
           /\ Occurrences(out, <<"</Sources>\n">>) = 1
           /\ Occurrences(out, <<"</Source>\n">>) = Len(sources)
           /\ Len(opens) = Len(sources)
           /\ \A k \in 1..Len(sources) :
                 opens[k] = <<"<Source sourceID=\"", "B">> \o NODEID \o <<"-">>
                            \o IntToText(sources[k].id) \o <<"\">">>

\* The mandatory elements of a Source and the text of their fragments.
MandatoryTags == {"Title", "Category", "Year"}

\* C18: no mandatory element of a Source is empty; a record with an empty
\* title renders a Title element holding the missing-title marker, and a
\* record without year renders Year 9999.
C18_MandatoryNeverEmpty ==
    ret.xsams_source # <<>>
    => LET out == ret.xsams_source[1].out
       IN  /\ \A tag \in MandatoryTags :
                 /\ ElementsOf(out, tag) # {}
                 /\ \A k \in ElementsOf(out, tag) : ContentsOf(out[k]) # <<>>
           /\ self.title = <<>>
              => \A k \in ElementsOf(out, "Title") :
                    ContentsOf(out[k]) = <<"[This source does not have a title]">>
           /\ self.year = {}
              => \A k \in ElementsOf(out, "Year") :
                    ContentsOf(out[k]) = <<"9", "9", "9", "9">>

\* The optional elements of a Source and the stored fields they render.
OptionalTags ==
    { <<"SourceName", "journal">>, <<"Volume", "volume">>,
      <<"PageBegin", "page_start">>, <<"PageEnd", "page_end">>,
      <<"ArticleNumber", "article_number">>,
      <<"UniformResourceIdentifier", "url">>,
      <<"DigitalObjectIdentifier", "doi">> }

\* C19: a record whose journal, volume, page_start, page_end,
\* article_number, url or doi is the empty string renders no SourceName,
\* Volume, PageBegin, PageEnd, ArticleNumber, UniformResourceIdentifier or
\* DigitalObjectIdentifier element.
C19_OptionalOmittedWhenEmpty ==
    ret.xsams_source # <<>>
    => \A p \in OptionalTags :
          self[p[2]] = <<>> => ElementsOf(ret.xsams_source[1].out, p[1]) = {}

-----------------------------------------------------------------------------
(* src/refs/api_views.py: the retrieve and the list view over the saved    *)
(* records.  The keyword arguments of a view are a function from the       *)
(* keywords present to their values.                                       *)

\* int(s) for a text of decimal digits; ValueError for the empty text and
\* for a text with another character.
RECURSIVE DigitsValue(_)
DigitsValue(s) ==
    IF s = <<>> THEN 0
    ELSE 10 * DigitsValue(SubSeq(s, 1, Len(s) - 1)) + (IndexIn(Digits, s[Len(s)]) - 1)

IntFromText(s) ==
    IF s = <<>> \/ \E k \in 1..Len(s) : IndexIn(Digits, s[k]) = 0
    THEN [err |-> "ValueError", val |-> 0]
    ELSE [err |-> NoErr, val |-> DigitsValue(s)]

\* The qualified id parsed without dropping its first character.
QidToPk_whole(qid) == IntFromText(qid)

\* int(qid[1:])   (lines 18 and 36)
QidToPk(qid) == IntFromText(DropTo(qid, 2))

\* get_object_or_404(queryset, pk=pk) and get_list_or_404(queryset, ...) for
\* the set of the records that match: Http404 when it is empty.
OrHttp404(matching) ==
    IF matching = {} THEN [err |-> "Http404", objs |-> {}]
    ELSE [err |-> NoErr, objs |-> matching]

\* RefRetrieveAPIView.get_object, lines 13-23.
get_object(queryset, kw) ==
    IF Has(kw, "qid")
    THEN IF QidToPk(kw.qid).err # NoErr
         THEN [err |-> QidToPk(kw.qid).err, objs |-> {}]
         ELSE OrHttp404({ r \in queryset : r.id = QidToPk(kw.qid).val })
    ELSE IF ~Has(kw, "pk") THEN [err |-> "KeyError", objs |-> {}]
    ELSE OrHttp404({ r \in queryset : r.id = kw.pk })

\* The members of a list.
Range(xs) == { xs[k] : k \in 1..Len(xs) }

\* RefListAPIView.get_queryset, lines 30-42; kwargs.get(k) of an absent
\* keyword is None and an empty list is falsy.
get_queryset(queryset, kw) ==
    IF GetOr(kw, "doi") # <<>>
    THEN OrHttp404({ r \in queryset : r.doi \in Range(kw.doi) })
    ELSE IF GetOr(kw, "qid") # <<>>
    THEN IF \E q \in Range(kw.qid) : QidToPk(q).err # NoErr
         THEN [err |-> "ValueError", objs |-> {}]
         ELSE OrHttp404({ r \in queryset : r.id \in { QidToPk(q).val : q \in Range(kw.qid) } })
    ELSE IF GetOr(kw, "pk") # <<>>
    THEN OrHttp404({ r \in queryset : r.id \in Range(kw.pk) })
    ELSE [err |-> "ValueError", objs |-> {}]

(* The requests: primary keys up to MaxPk, lists of at most MaxArgs        *)
(* values.                                                                 *)

MaxPk == 3
MaxArgs == 2

DoiX == <<"1", "0", ".", "1", "/", "x">>
DoiY == <<"1", "0", ".", "1", "/", "y">>

\* A saved record with primary key n and DOI d.
SavedRef(n, d) == [id |-> n] @@ [BlankRef EXCEPT !.doi = d]

\* The tables: each primary key in use at most once, each record with or
\* without a DOI (the same DOI may be held by several records).
Tables ==
    { { SavedRef(n, dois[n]) : n \in ks } :
        ks \in SUBSET (1..MaxPk), dois \in [1..MaxPk -> {DoiX, <<>>}] }

ListsOf(S) == UNION { [1..n -> S] : n \in 0..MaxArgs }

\* Qualified ids "B<n>", and texts that are not of that form.
Qid(n) == <<"B">> \o IntToText(n)

QidTexts ==
    { Qid(n) : n \in 1..(MaxPk + 1) }
    \cup { <<"B">>, <<"2">>, <<"X", "1">>, <<"B", "x">>, <<"B", "0", "1">> }

RetrieveKwargs ==
    { ("qid" :> q) : q \in QidTexts }
    \cup { ("pk" :> n) : n \in 1..(MaxPk + 1) }
    \cup { ("qid" :> q) @@ ("pk" :> n) : q \in {Qid(1), <<"B">>}, n \in {1, 2} }
    \cup { EmptyObj }

ListKwargs ==
    { [k \in ks |-> IF k = "doi" THEN d ELSE IF k = "qid" THEN q ELSE p] :
        ks \in SUBSET {"doi", "qid", "pk"},
        d \in ListsOf({DoiX, DoiY}),
        q \in ListsOf({Qid(1), Qid(MaxPk + 1), <<"B">>}),
        p \in ListsOf({1, 2, MaxPk + 1}) }

Requests ==
    { [view |-> "retrieve", kwargs |-> kw] : kw \in RetrieveKwargs }
    \cup { [view |-> "list", kwargs |-> kw] : kw \in ListKwargs }

InitApi ==
    /\ objects \in Tables
    /\ request \in Requests
    /\ response = <<>>
    /\ doi_arg = <<>>
    /\ doi_res = <<>>
    /\ IdleFmt
    /\ IdleRef
    /\ store = {}
    /\ IdleCall

OtherThanResponse ==
    <<objects, request, doi_vars, fmt_vars, ref_vars, store, call_vars>>

\* RefRetrieveAPIView serves the request.
Retrieve ==
    /\ response = <<>>
    /\ request.view = "retrieve"
    /\ response' = <<get_object(objects, request.kwargs)>>
    /\ UNCHANGED OtherThanResponse

\* RefListAPIView serves the request.
List ==
    /\ response = <<>>
    /\ request.view = "list"
    /\ response' = <<get_queryset(objects, request.kwargs)>>
    /\ UNCHANGED OtherThanResponse

NextApi ==
    \/ Retrieve
    \/ List

SpecApi == InitApi /\ [][NextApi]_vars

(* Vocabulary of the claim about the API views. *)

\* q is the qualified id "B<n>" of the primary key n.
IsQidOf(q, n) == q = <<"B">> \o IntToText(n)

\* The primary keys that the qualified ids of a list name.
PksOfQids(qs) == { n \in 0..(MaxPk + 1) : \E q \in Range(qs) : IsQidOf(q, n) }

\* Every text of the list is a qualified id.
AllQids(qs) == \A q \in Range(qs) : \E n \in 0..(MaxPk + 1) : IsQidOf(q, n)

\* The view answers with exactly the records of `matching`: not found when
\* there is none.
Answers(matching) ==
    /\ response[1].objs = matching
    /\ response[1].err = IF matching = {} THEN "Http404" ELSE NoErr

\* C17: a retrieve request with qid "B<n>" answers with exactly the record
\* whose pk is n; a list request with a non-empty doi argument answers with
\* exactly the records that hold one of these DOIs, whatever its qid and pk
\* arguments; a list request without doi and with qids (or else with pks)
\* answers with exactly the records whose pk is among them.
C17_QidSelectsByPk ==
    response # <<>>
    => LET kw == request.kwargs
       IN  IF request.view = "retrieve"
           THEN \A n \in 0..(MaxPk + 1) :
                   (Has(kw, "qid") /\ IsQidOf(kw.qid, n))
                   => /\ Answers({ r \in objects : r.id = n })
                      /\ Cardinality(response[1].objs) <= 1
           ELSE /\ GetOr(kw, "doi") # <<>>
                   => Answers({ r \in objects : r.doi \in Range(kw.doi) })
                /\ (GetOr(kw, "doi") = <<>> /\ GetOr(kw, "qid") # <<>>
                      /\ GetOr(kw, "pk") = <<>> /\ AllQids(kw.qid))
                   => Answers({ r \in objects : r.id \in PksOfQids(kw.qid) })
                /\ (GetOr(kw, "doi") = <<>> /\ GetOr(kw, "qid") = <<>>
                      /\ GetOr(kw, "pk") # <<>>)
                   => Answers({ r \in objects : r.id \in Range(kw.pk) })

\* The list view has answered a request that names two qualified ids, one
\* of a saved record and one of no record, over a table with another record
\* too.
C17_Witness ==
    /\ response # <<>>
    /\ request.view = "list"
    /\ Cardinality(objects) >= 2
    /\ DOMAIN request.kwargs = {"qid"}
    /\ Len(request.kwargs.qid) = 2
    /\ AllQids(request.kwargs.qid)
    /\ Cardinality(response[1].objs) = 1

-----------------------------------------------------------------------------
(* The page range of a citation document: page strings of at most          *)
(* MaxPageLen characters, each a hyphen, a digit or a letter.              *)

MaxPageLen == 7

PageChars == {"-", "1", "L"}

PageStrings == UNION { [1..n -> PageChars] : n \in 0..MaxPageLen }

InitPage ==
    /\ page_arg \in PageStrings
    /\ page_res = <<>>
    /\ author_arg = <<>>
    /\ author_res = <<>>
    /\ doi_arg = <<>>
    /\ doi_res = <<>>
    /\ IdleRef
    /\ IdleApi
    /\ store = {}
    /\ IdleCall

\* Lines 361-372: page_start, page_end = cpd.get('page', ''), '' and the
\* split.
SplitPage ==
    /\ page_res = <<>>
    /\ page_res' = <<ParsePage(page_arg)>>
    /\ UNCHANGED <<page_arg, author_arg, author_res, doi_vars, ref_vars,
                   api_vars, store, call_vars>>

NextPage == SplitPage

SpecPage == InitPage /\ [][NextPage]_vars

(* Vocabulary of the claim about page ranges. *)

\* The positions of the hyphens of s.
HyphenPositions(s) == { i \in 1..Len(s) : s[i] = "-" }

\* s has two hyphens in a row.
HasDoubleHyphen(s) == \E i \in 1..(Len(s) - 1) : s[i] = "-" /\ s[i + 1] = "-"

\* The position of the middle one of an odd number of hyphens.
MiddleHyphen(s) ==
    CHOOSE m \in HyphenPositions(s) :
        Cardinality({ i \in HyphenPositions(s) : i < m })
          = Cardinality({ i \in HyphenPositions(s) : i > m })

\* C20: a page string without double hyphen and with an odd number of
\* hyphens is split at its middle hyphen, page_start being the text before
\* it and page_end the text after it; with an even number of hyphens
\* (also none) page_start is the whole string and page_end is empty.
C20_SplitAtMiddleHyphen ==
    (page_res # <<>> /\ ~HasDoubleHyphen(page_arg))
    => /\ page_res[1].err = NoErr
       /\ IF Cardinality(HyphenPositions(page_arg)) % 2 = 1
          THEN /\ page_res[1].page_start
                    = SubSeq(page_arg, 1, MiddleHyphen(page_arg) - 1)
               /\ page_res[1].page_end
                    = SubSeq(page_arg, MiddleHyphen(page_arg) + 1, Len(page_arg))
          ELSE /\ page_res[1].page_start = page_arg
               /\ page_res[1].page_end = <<>>

\* A page string with three separate hyphens has been split at the second.
C20_Witness ==
    /\ page_res # <<>>
    /\ ~HasDoubleHyphen(page_arg)
    /\ Cardinality(HyphenPositions(page_arg)) = 3
    /\ page_res[1].page_start = <<"L", "-", "1">>
    /\ page_res[1].page_end = <<"1", "-", "L">>

\* C21: every page string that contains a double hyphen is split on a
\* double hyphen into page_start and page_end, without raising, whatever
\* the number of its double hyphens and single hyphens.
C21_DoubleHyphenSplits ==
    (page_res # <<>> /\ HasDoubleHyphen(page_arg))
    => /\ page_res[1].err = NoErr
       /\ page_res[1].page_start \o <<"-", "-">> \o page_res[1].page_end = page_arg

-----------------------------------------------------------------------------
(* Vocabulary of the claim about the order of the fragments of a Source.   *)

\* The fragments of a Source element in their fixed order; "Author" may
\* repeat.
FixedOrder ==
    <<"Source", "Comments", "Authors", "Author", "/Authors", "Title", "Category",
      "Year", "SourceName", "Volume", "PageBegin", "PageEnd", "ArticleNumber",
      "UniformResourceIdentifier", "DigitalObjectIdentifier", "/Source">>

\* What a non-empty fragment is.
KindOf(fragment) ==
    IF fragment[1] = "<Source sourceID=\"" THEN "Source"
    ELSE IF fragment[1] = "<Comments>" THEN "Comments"
    ELSE IF fragment[1] = "<Authors>" THEN "Authors"
    ELSE IF fragment[1] = "<Author><Name>" THEN "Author"
    ELSE IF fragment[1] = "</Authors>" THEN "/Authors"
    ELSE IF fragment[1] = "</Source>\n" THEN "/Source"
    ELSE IF fragment[1] = "<" /\ Len(fragment) >= 2 THEN fragment[2]
    ELSE "text"

\* The fragments that hold text, in output order (an empty fragment adds
\* nothing to the output).
RECURSIVE NonEmpty(_)
NonEmpty(out) ==
    IF out = <<>> THEN <<>>
    ELSE (IF Head(out) = <<>> THEN <<>> ELSE <<Head(out)>>) \o NonEmpty(Tail(out))

\* The text between the first and the last string of a fragment.
Inner(fragment) == SubSeq(fragment, 2, Len(fragment) - 1)

\* t is the text s with &, < and > written as entities.
IsEscaped(t, s) ==
    /\ Len(t) = Len(s)
    /\ \A k \in 1..Len(s) :
          t[k] = (CASE s[k] = "&" -> "&amp;"
                    [] s[k] = "<" -> "&lt;"
                    [] s[k] = ">" -> "&gt;"
                    [] OTHER -> s[k])

\* The fragments out are those of one Source element of the record this,
\* in the fixed order.
InFixedOrder(out, this) ==
    LET fs == NonEmpty(out)
        kinds == [k \in 1..Len(fs) |-> KindOf(fs[k])]
        ofKind(x) == { k \in 1..Len(fs) : kinds[k] = x }
        authors == { k \in 1..Len(fs) : kinds[k] = "Author" }
    IN  /\ \A k \in 1..Len(fs) : IndexIn(FixedOrder, kinds[k]) # 0
        /\ \A j, k \in 1..Len(fs) :
              j < k => \/ IndexIn(FixedOrder, kinds[j]) < IndexIn(FixedOrder, kinds[k])
                       \/ kinds[j] = "Author" /\ kinds[k] = "Author"
        /\ \A x \in {"Source", "Authors", "/Authors", "Title", "Category", "Year",
                     "/Source"} : Cardinality(ofKind(x)) = 1
        /\ Cardinality(ofKind("Comments")) = IF this.note # <<>> THEN 1 ELSE 0
        /\ \A k \in ofKind("Comments") : IsEscaped(Inner(fs[k]), this.note)
        /\ Cardinality(authors) = Len(authors_list(this))
        /\ \A k \in authors :
              Inner(fs[k])
                = authors_list(this)[Cardinality({ j \in authors : j <= k })]

\* C22: the fragments of every Source element come in the fixed order, with
\* exactly one escaped Comments element iff the note is not empty and one
\* Author/Name pair per entry of authors_list in order; and rendering
\* changes no field of the record.
C22_FragmentsInFixedOrder ==
    [][(ret.xsams_source = <<>> /\ ret'.xsams_source # <<>>)
       => /\ InFixedOrder(ret'.xsams_source[1].out, self)
          /\ self' = self]_vars

\* A record with a note to escape, three authors and every field filled in
\* has been rendered by the packaged generator.
C22_Witness ==
    /\ ret.xsams_source # <<>>
    /\ ret.xsams_source[1].module = Packaged
    /\ Contains(self.note, <<">">>)
    /\ Len(authors_list(self)) = 3
    /\ \A f \in OptionalFields : self[f] # BlankRef[f]
    /\ Len(NonEmpty(ret.xsams_source[1].out)) = 18

-----------------------------------------------------------------------------
(* Vocabulary of the claims about re-resolving an existing record.         *)

\* The record r holds the base fields of the document d and its raw text.
HoldsBaseFieldsOf(r, d) ==
    /\ \A k \in BaseFields : r[k] = ParseFields(d)[k]
    /\ r.citeproc_json = {d}

\* The record r has the bibcode and both titles it had when the call began.
EnrichmentAsBefore(r) ==
    /\ r.bibcode = Prior("bibcode")
    /\ r.title_html = Prior("title_html")
    /\ r.title_latex = Prior("title_latex")

\* C23 (as claimed): with an existing record the base fields are overwritten
\* before any literature-index call, and when the call ends with ADSError
\* the record holds the new document's base fields together with its
\* previous bibcode, title_html and title_latex.
C23_ADSErrorKeepsPreviousEnrichment ==
    existing =>
        \A r \in ref, d \in cpd :
            /\ ~NoIndexCall => HoldsBaseFieldsOf(r, d)
            /\ (pc = "done" /\ outcome = "ADSError") =>
                  /\ HoldsBaseFieldsOf(r, d)
                  /\ EnrichmentAsBefore(r)

\* C23 (amended): with an existing record the base fields are overwritten
\* before any literature-index call, and when the call ends with ADSError
\* the record holds the new document's base fields together with whatever
\* enrichment was stored up to the failing call: all three previous values
\* when the bibcode search failed; the new bibcode and both previous titles
\* when the HTML title export failed; the new bibcode, the fetched HTML title
\* if it was non-empty (the previous one otherwise) and the previous
\* title_latex when the LaTeX title export failed.
C23_ADSErrorKeepsEnrichmentSoFar ==
    existing =>
        \A r \in ref, d \in cpd :
            /\ ~NoIndexCall => HoldsBaseFieldsOf(r, d)
            /\ (pc = "done" /\ outcome = "ADSError") =>
                  /\ HoldsBaseFieldsOf(r, d)
                  /\ n_export = 0 => EnrichmentAsBefore(r)
                  /\ n_export = 1 =>
                        /\ bibcode = {r.bibcode}
                        /\ r.title_html = Prior("title_html")
                        /\ r.title_latex = Prior("title_latex")
                  /\ n_export = 2 =>
                        /\ bibcode = {r.bibcode}
                        /\ \A t \in title_html :
                              r.title_html
                                = IF t # <<>> THEN t ELSE Prior("title_html")
                        /\ r.title_latex = Prior("title_latex")

\* The LaTeX title export of a re-resolution of the stored record failed
\* with ADSError after a bibcode and an HTML title had been stored.
C23_Witness ==
    /\ pc = "done"
    /\ outcome = "ADSError"
    /\ existing
    /\ before = {OldRef}
    /\ n_export = 2
    /\ bibcode = {BibA}
    /\ title_html = {<<"<", "i", ">", "T">>}
    /\ \A r \in ref : /\ r.doi = <<"1", "0", ".", "1", "/", "x">>
                      /\ r.bibcode = BibA
                      /\ r.title_html = <<"<", "i", ">", "T">>
                      /\ r.title_latex = OldRef.title_latex

-----------------------------------------------------------------------------
(* Re-resolutions of one record: whole calls of get_ref_from_doi, one      *)
(* after the other, on the record the caller holds.  The record is a       *)
(* Python object mutated in place, so what a call has assigned stays on it *)
(* when the call raises.                                                   *)

\* session.post of lines 325-334 on the responses of its attempts, in order:
\* the response handed back, or the exception of the exhausted retries
\* ("pending" when the responses run out before the session is done).
RECURSIVE post(_, _)
post(resps, left) ==
    IF resps = <<>> THEN [err |-> "pending", resp |-> NoResp]
    ELSE LET step == RetryStep(Head(resps), left)
         IN  IF step = "retry" THEN post(Tail(resps), left - 1)
             ELSE IF step = "return" THEN [err |-> NoErr, resp |-> Head(resps)]
             ELSE [err |-> step, resp |-> NoResp]

\* get_title_from_bibcode (lines 319-345) as a whole.
get_title_from_bibcode(resps) ==
    LET p == post(resps, RetryTotal)
    IN  IF p.err # NoErr THEN [err |-> p.err, val |-> <<>>] ELSE TitleOf(p.resp)

\* What a call of parse_citeproc_json comes to: the exception raised (NoErr
\* when it returns), the record as the call leaves it, and the number of
\* search and export calls made.
CallResult(err, rec, ns, ne) ==
    [err |-> err, rec |-> rec, n_search |-> ns, n_export |-> ne]

\* Lines 407-410: the LaTeX title l fetched and stored on r3 if non-empty.
enrich_latex(r3, l) ==
    IF l.err # NoErr THEN CallResult(l.err, r3, 1, 2)
    ELSE CallResult(NoErr, StoreTitle(r3, "title_latex", l.val), 1, 2)

\* Lines 404-406: the HTML title h fetched and stored on r2 if non-empty.
enrich_titles(r2, h, l) ==
    IF h.err # NoErr THEN CallResult(h.err, r2, 1, 1)
    ELSE enrich_latex(StoreTitle(r2, "title_html", h.val), l)

\* A slip: line 403 without the test of line 402, the result of the search
\* stored whether or not a bibcode was found.
enrich_store_absent(r1, q, b, h, l) ==
    IF ~q THEN CallResult(NoErr, r1, 0, 0)
    ELSE IF b.err # NoErr THEN CallResult(b.err, r1, 1, 0)
    ELSE IF b.val = {} \/ b.val = {<<>>}
    THEN CallResult(NoErr, [r1 EXCEPT !.bibcode = <<>>], 1, 0)
    ELSE enrich_titles([r1 EXCEPT !.bibcode = CHOOSE v \in b.val : TRUE], h, l)

\* Lines 400-410 on the updated record r1: b is the result of get_bibcode,
\* h and l those of the two calls of get_title_from_bibcode.
enrich(r1, q, b, h, l) ==
    IF ~q THEN CallResult(NoErr, r1, 0, 0)
    ELSE IF b.err # NoErr THEN CallResult(b.err, r1, 1, 0)
    ELSE IF b.val = {} \/ b.val = {<<>>} THEN CallResult(NoErr, r1, 1, 0)
    ELSE enrich_titles([r1 EXCEPT !.bibcode = CHOOSE v \in b.val : TRUE], h, l)

\* Lines 351-410 once the document is parsed into f: nothing is assigned
\* when the parse raised.
update_and_enrich(f, doc, r, q, b, h, l) ==
    IF f.err # NoErr THEN CallResult(f.err, r, 0, 0)
    ELSE enrich(AssignFields(r, f, doc), q, b, h, l)

\* parse_citeproc_json (lines 348-410) as a whole, on an existing record r,
\* given the answer to the search and the attempts of each export call.
parse_citeproc_json(doc, r, q, s_resp, h_resps, l_resps) ==
    update_and_enrich(ParseFields(doc), doc, r, q, get_bibcode(s_resp),
                      get_title_from_bibcode(h_resps),
                      get_title_from_bibcode(l_resps))

\* The longest run of attempts of one export call.
MaxPosts == 2

\* The document of the end-to-end example: type, title, DOI and year.
DocX == Restrict(FullDoc, {"type", "title", "DOI", "issued"})

\* A second document, with another DOI and another title.
DocY ==
    With(With(DocX, "DOI", <<"1", "0", ".", "2", "/", "y">>), "title", <<"U">>)

\* The documents the resolver returns to a re-resolution: two articles and
\* a book.
ReDocuments == { DocX, DocY, With(DocX, "type", <<"b", "o", "o", "k">>) }

ReFetchResponses == { Resp(200, EmptyObj), Resp(404, EmptyObj) }

\* The index knows the DOI under one bibcode or another, does not know it,
\* or answers with an error.
ReSearchResponses ==
    { Resp(200, SearchBody(0, <<>>)),
      Resp(200, SearchBody(0, << [bibcode |-> BibA] >>)),
      Resp(200, SearchBody(0, << [bibcode |-> BibB] >>)),
      Resp(401, [error |-> <<"U">>]) }

ReExportResponses ==
    { Resp(200, [export |-> <<"<", "i", ">", "T">>]),
      Resp(200, [export |-> <<>>]),
      Resp(404, EmptyObj),
      Resp(503, EmptyObj) }

\* The runs of attempts of one export call: every response but the last is
\* retried, the last one ends the call.
ExportRuns ==
    { resps \in UNION { [1..n -> ReExportResponses] : n \in 1..MaxPosts } :
        /\ \A k \in 1..(Len(resps) - 1) :
              RetryStep(resps[k], RetryTotal - (k - 1)) = "retry"
        /\ RetryStep(resps[Len(resps)], RetryTotal - (Len(resps) - 1)) # "retry" }

\* The answers given to requests a call never makes are not part of its
\* input: they are held at these values.
NoSearch == Resp(200, SearchBody(0, <<>>))

NoRun == << Resp(200, [export |-> <<>>]) >>

\* The call of parse_citeproc_json on these inputs makes at least n index
\* calls (this does not depend on the record).
Consults(n, doc, q, s_resp, h_resps) ==
    LET res == parse_citeproc_json(doc, BlankRef, q, s_resp, h_resps, NoRun)
    IN  res.n_search + res.n_export >= n

InitResolve ==
    /\ doi_arg = <<>>
    /\ doi_res = <<>>
    /\ IdleFmt
    /\ IdleRef
    /\ IdleApi
    /\ store = {OldRef}
    /\ IdleCall

\* The end of a call that raised err before the record was touched, or that
\* ran parse_citeproc_json with the result res: the record is the one the
\* call left, and the call variables keep the arguments, the responses and
\* the result of this call.
EndOfCall(resp, docs, q, s_resp, h, l, res, err) ==
    /\ store' = {res.rec}
    /\ ref' = {res.rec}
    /\ before' = store
    /\ existing' = TRUE
    /\ query_ads' = q
    /\ fetch_resp' = resp
    /\ cpd' = docs
    /\ n_search' = res.n_search
    /\ n_export' = res.n_export
    /\ search_resp' = IF res.n_search = 1 THEN s_resp ELSE NoResp
    /\ bibcode' = IF res.n_search = 1 THEN get_bibcode(s_resp).val ELSE {}
    /\ title_html' = IF res.n_export >= 1 /\ h.err = NoErr THEN {h.val} ELSE {}
    /\ title_latex' = IF res.n_export = 2 /\ l.err = NoErr THEN {l.val} ELSE {}
    /\ Finished(err)

\* One whole call get_ref_from_doi(doi, ref, query_ads) (lines 426-429) on
\* the record held: the fetch, and parse_citeproc_json when the fetch
\* succeeded.  An answer to a request the call does not make is held at
\* NoSearch or NoRun.
Reresolve ==
    /\ \E r \in store, resp \in ReFetchResponses :
          IF FetchError(resp) # NoErr
          THEN EndOfCall(resp, {}, FALSE, NoSearch, get_title_from_bibcode(NoRun),
                         get_title_from_bibcode(NoRun),
                         CallResult(FetchError(resp), r, 0, 0), FetchError(resp))
          ELSE \E d \in ReDocuments, q \in BOOLEAN, s_resp \in ReSearchResponses :
                /\ ~Consults(1, d, q, NoSearch, NoRun) => s_resp = NoSearch
                /\ \E h_resps \in ExportRuns :
                      /\ ~Consults(2, d, q, s_resp, NoRun) => h_resps = NoRun
                      /\ \E l_resps \in ExportRuns :
                            /\ ~Consults(3, d, q, s_resp, h_resps) => l_resps = NoRun
                            /\ EndOfCall(resp, {d}, q, s_resp,
                                         get_title_from_bibcode(h_resps),
                                         get_title_from_bibcode(l_resps),
                                         parse_citeproc_json(d, r, q, s_resp, h_resps,
                                                             l_resps),
                                         parse_citeproc_json(d, r, q, s_resp, h_resps,
                                                             l_resps).err)
    /\ UNCHANGED <<doi_vars, fmt_vars, ref_vars, api_vars, constructed, attempts,
                   retries, retry_cause, export_resp>>

NextResolve == Reresolve

SpecResolve == InitResolve /\ [][NextResolve]_vars

(* Vocabulary of the claim about what re-resolutions write.                *)

EnrichmentFields == {"bibcode", "title_html", "title_latex"}

\* The latest call changed one of bibcode, title_html and title_latex of the
\* record.
EnrichmentWritten ==
    \E r \in store, p \in before : \E k \in EnrichmentFields : r[k] # p[k]

\* The latest call asked for enrichment and its bibcode search found a
\* bibcode.
SearchFoundBibcode ==
    /\ query_ads
    /\ n_search = 1
    /\ Has(search_resp.body, "response")
    /\ search_resp.body.response.docs # <<>>
    /\ bibcode # {}
    /\ bibcode # {<<>>}

\* The latest call parsed its document and then either was not asked to
\* enrich or was told by the bibcode search that the DOI is absent.
NoBibcodeResolution ==
    /\ pc = "done"
    /\ outcome = "returned"
    /\ \/ ~query_ads
       \/ /\ n_search = 1
          /\ Has(search_resp.body, "response")
          /\ search_resp.body.response.docs = <<>>

\* Such a call makes no export-title call and leaves bibcode, title_html and
\* title_latex as they were, while the base fields are those of its
\* document.
NoBibcodeResolutionWritesBaseOnly ==
    NoBibcodeResolution =>
        /\ n_export = 0
        /\ title_html = {}
        /\ title_latex = {}
        /\ \A r \in store, d \in cpd :
              /\ EnrichmentAsBefore(r)
              /\ HoldsBaseFieldsOf(r, d)

\* C24 (as claimed): over any sequence of re-resolutions of one record,
\* bibcode, title_html and title_latex are written only by a successful
\* enrichment that found a bibcode; a resolution without enrichment, or
\* whose search returns absent, makes no export call and leaves the three at
\* their previous values while doi and title are overwritten.
C24_WrittenOnlyBySuccessfulEnrichment ==
    /\ EnrichmentWritten => (SearchFoundBibcode /\ outcome = "returned")
    /\ NoBibcodeResolutionWritesBaseOnly

\* C24 (amended): over any sequence of re-resolutions of one record,
\* bibcode, title_html and title_latex are written only by an enrichment
\* whose bibcode search found a bibcode, whether or not the title exports
\* that follow succeed: the bibcode written is the one found, and a title is
\* written only by its export call; a resolution without enrichment, or
\* whose search returns absent, makes no export call and leaves the three at
\* their previous values while doi and title are overwritten.
C24_WrittenOnlyAfterBibcodeFound ==
    /\ EnrichmentWritten => SearchFoundBibcode
    /\ \A r \in store, p \in before :
          /\ r.bibcode # p.bibcode => bibcode = {r.bibcode}
          /\ r.title_html # p.title_html => (n_export >= 1 /\ title_html = {r.title_html})
          /\ r.title_latex # p.title_latex => (n_export = 2 /\ title_latex = {r.title_latex})
    /\ NoBibcodeResolutionWritesBaseOnly

\* A record enriched by an earlier re-resolution (bibcode and titles no
\* longer those it started with) has been re-resolved from the other
\* document with a search that returned absent: doi and title are new, the
\* enrichment is the earlier one.
C24_Witness ==
    /\ NoBibcodeResolution
    /\ query_ads
    /\ cpd = {DocY}
    /\ \A r \in store, p \in before :
          /\ r.doi = <<"1", "0", ".", "2", "/", "y">>
          /\ r.title = <<"U">>
          /\ p.doi = <<"1", "0", ".", "1", "/", "x">>
          /\ r.bibcode = BibB
          /\ p.bibcode = BibB
          /\ r.title_html = <<"<", "i", ">", "T">>
          /\ r.title_latex = OldRef.title_latex

====
